---- MODULE Spec2Model ----
(***************************************************************************)
(* Model of the conversational triage pipeline of Helthtech:               *)
(*   ai_service/emotion_classifier.py, sentiment_analyzer.py,              *)
(*   risk_detector.py, llm_companion.py and backend/app/api/chat.py.       *)
(*                                                                         *)
(* Conventions                                                             *)
(*   - a Python str is a TLA+ string; characters are 1-character strings   *)
(*   - an Optional value is a sequence: <<>> is None, <<v>> is the value v *)
(*   - a sentiment / confidence float is an integer in units of 1/10000    *)
(*     (the code rounds both to 4 decimals)                                *)
(*   - a risk score is an integer: every term the code adds is integral,   *)
(*     so round(score, 1) is the identity on the values reached            *)
(***************************************************************************)
EXTENDS Integers, Sequences, FiniteSets, TLC

VARIABLES
    AI_AVAILABLE,        \* chat.py: did "from ai_service... import" succeed
    api_key,             \* os.getenv("OPENAI_API_KEY", "")
    emotion_classifier,  \* emotion_classifier._emotion_classifier
    sentiment_analyzer,  \* sentiment_analyzer._sentiment_analyzer
    client,              \* llm_companion._client
    chat_logs,           \* collection chat_logs   (insertion order)
    risk_scores,         \* collection risk_scores (insertion order)
    alerts,              \* collection alerts      (insertion order)
    now,                 \* datetime.utcnow(), as a tick count
    req,                 \* send_message requests, by request slot
    call                 \* one direct call of an ai_service function

vars == <<AI_AVAILABLE, api_key, emotion_classifier, sentiment_analyzer, client,
          chat_logs, risk_scores, alerts, now, req, call>>

-----------------------------------------------------------------------------
(* Optional values *)

None == <<>>

Some(v) == <<v>>

-----------------------------------------------------------------------------
(* Strings *)

\* the characters c with c.isspace(), which are also those the pattern \s
\* matches: \t, \n, U+000B, \f, \r, U+001C to U+001F, space, U+0085, U+00A0
\* and U+1680.  (The other such characters, U+2000 to U+200A, U+2028, U+2029,
\* U+202F, U+205F and U+3000, cannot be written in a string of this module.)
Whitespace ==
    {"\t", "\n", "", "\f", "\r", "", "", "", "",
     " ", "", " ", " "}

CharAt(s, i) == SubSeq(s, i, i)

\* x in s  (substring test)
Contains(s, x) ==
    \E i \in 1..(Len(s) - Len(x) + 1) : SubSeq(s, i, i + Len(x) - 1) = x

(* str.lower() and str.upper() of Python 3.11 (Unicode 14): every character  *)
(* is replaced by its lower or upper case, which for upper() may be more    *)
(* than one character, and lower() turns a capital sigma that ends a word   *)
(* into the final small sigma.  The tables hold the characters that a       *)
(* string of this module can hold; a letter whose other case cannot be      *)
(* written in such a string has no image here.                              *)

\* the letters that str.lower() changes, among the characters that can be
\* written in a string of this module together with their lower case
UpperCaseLetters ==
    "ABCDEFGHIJKLMNOPQRSTUVWXYZÀÁÂÃÄÅÆÇÈÉÊËÌÍÎÏÐÑÒÓÔÕÖØÙÚÛÜÝÞƂƄƇƋƎƑƘƠƢƤƦƧƩƬƮƯƱƲƳƵƷƸƼǄǅǇǈǊǋǍǏǑǓǕǗǙǛǞǠǢǤǦǨǪǬǮǱǲǴǶǷǸǺǼǾΆΈΉΊΌΎΏΑΒΓΔΕΖΗΘΙΚΛΜΝΞΟΠΡΣΤΥΦΧΨΩΪΫϏϘϚϜϞϠϢϤϦϨϪϬϮϴϷϹϺҀҊҌҎҐҒҔҖҘҚҜҞҠҢҤҦҨҪҬҮҰҲҴҶҸҺҼҾӀӁӃӅӇӉӋӍӐӒӔӖӘӚӜӞӠӢӤӦӨӪӬӮӰӲӴӶӸӺӼӾᎰᎱᎲᎳᎴᎵᎶᎷᎸᎹᎺᎻᎼᎽᎾᎿᏀᏁᏂᏃᏄᏅᏆᏇᏈᏉᏊᏋᏌᏍᏎᏏᏐᏑᏒᏓᏔᏕᏖᏗᏘᏙᏚᏛᏜᏝᏞᏟᏠᏡᏢᏣᏤᏥᏦᏧᏨᏩᏪᏫᏬᏭᏮᏯᏰᏱᏲᏳᏴᏵᲐᲑᲒᲓᲔᲕᲖᲗᲘᲙᲚᲛᲜᲝᲞᲟᲠᲡᲢᲣᲤᲥᲦᲧᲨᲩᲪᲫᲬᲭᲮᲯᲰᲱᲲᲳᲴᲵᲶᲷᲸᲹᲺᲽᲾᲿẀẂẄẆẈẊẌẎẐẒẔẞẠẢẤẦẨẪẬẮẰẲẴẶẸẺẼẾỀỂỄỆỈỊỌỎỐỒỔỖỘỚỜỞỠỢỤỦỨỪỬỮỰỲỴỶỸỺỼỾᾈᾉᾊᾋᾌᾍᾎᾏᾘᾙᾚᾛᾜᾝᾞᾟᾨᾩᾪᾫᾬᾭᾮᾯᾸᾹᾼῌῘῙῨῩῬῼↃⒶⒷⒸⒹⒺⒻⒼⒽⒾⒿⓀⓁⓂⓃⓄⓅⓆⓇⓈⓉⓊⓋⓌⓍⓎⓏⲀⲂⲄⲆⲈⲊⲌⲎⲐⲒⲔⲖⲘⲚⲜⲞⲠⲢⲤⲦⲨⲪⲬⲮⲰⲲⲴⲶⲸⲺⲼⲾⳀⳂⳄⳆⳈⳊⳌⳎⳐⳒⳔⳖⳘⳚⳜⳞⳠⳢⳫⳭⳲꚀꚂꚄꚆꚈꚊꚌꚎꚐꚒꚔꚖꚘꚚꞀꞂꞄꞆꞋꞐꞒꞖꞘꞚꞜꞞꞠꞢꞤꞦꞨꞰꞱꞲꞴꞶꞸꞺꞼꞾꟀꟂꟄꟅꟆꟇꟉꟐꟖꟘꟵ"

\* their lower case, position by position
LowerCaseOfLetters ==
    "abcdefghijklmnopqrstuvwxyzàáâãäåæçèéêëìíîïðñòóôõöøùúûüýþƃƅƈƌǝƒƙơƣƥʀƨʃƭʈưʊʋƴƶʒƹƽǆǆǉǉǌǌǎǐǒǔǖǘǚǜǟǡǣǥǧǩǫǭǯǳǳǵƕƿǹǻǽǿάέήίόύώαβγδεζηθικλμνξοπρστυφχψωϊϋϗϙϛϝϟϡϣϥϧϩϫϭϯθϸϲϻҁҋҍҏґғҕҗҙқҝҟҡңҥҧҩҫҭүұҳҵҷҹһҽҿӏӂӄӆӈӊӌӎӑӓӕӗәӛӝӟӡӣӥӧөӫӭӯӱӳӵӷӹӻӽӿꮀꮁꮂꮃꮄꮅꮆꮇꮈꮉꮊꮋꮌꮍꮎꮏꮐꮑꮒꮓꮔꮕꮖꮗꮘꮙꮚꮛꮜꮝꮞꮟꮠꮡꮢꮣꮤꮥꮦꮧꮨꮩꮪꮫꮬꮭꮮꮯꮰꮱꮲꮳꮴꮵꮶꮷꮸꮹꮺꮻꮼꮽꮾꮿᏸᏹᏺᏻᏼᏽაბგდევზთიკლმნოპჟრსტუფქღყშჩცძწჭხჯჰჱჲჳჴჵჶჷჸჹჺჽჾჿẁẃẅẇẉẋẍẏẑẓẕßạảấầẩẫậắằẳẵặẹẻẽếềểễệỉịọỏốồổỗộớờởỡợụủứừửữựỳỵỷỹỻỽỿᾀᾁᾂᾃᾄᾅᾆᾇᾐᾑᾒᾓᾔᾕᾖᾗᾠᾡᾢᾣᾤᾥᾦᾧᾰᾱᾳῃῐῑῠῡῥῳↄⓐⓑⓒⓓⓔⓕⓖⓗⓘⓙⓚⓛⓜⓝⓞⓟⓠⓡⓢⓣⓤⓥⓦⓧⓨⓩⲁⲃⲅⲇⲉⲋⲍⲏⲑⲓⲕⲗⲙⲛⲝⲟⲡⲣⲥⲧⲩⲫⲭⲯⲱⲳⲵⲷⲹⲻⲽⲿⳁⳃⳅⳇⳉⳋⳍⳏⳑⳓⳕⳗⳙⳛⳝⳟⳡⳣⳬⳮⳳꚁꚃꚅꚇꚉꚋꚍꚏꚑꚓꚕꚗꚙꚛꞁꞃꞅꞇꞌꞑꞓꞗꞙꞛꞝꞟꞡꞣꞥꞧꞩʞʇʝꞵꞷꞹꞻꞽꞿꟁꟃꞔʂᶎꟈꟊꟑꟗꟙꟶ"

\* the letters whose lower case cannot be written in a string of this module
LowerCaseNotWritable ==
    "ƁƆƉƊƏƐƓƔƖƗƜƝƟϽϾϿႠႡႢႣႤႥႦႧႨႩႪႫႬႭႮႯႰႱႲႳႴႵႶႷႸႹႺႻႼႽႾႿჀჁჂჃჄჅჇჍᎠᎡᎢᎣᎤᎥᎦᎧᎨᎩᎪᎫᎬᎭᎮᎯᾺΆῈΈῊΉῚΊῪΎῸΌῺΏꞍꞪꞫꞬꞭꞮꞳ"

\* the characters of a string
Chars(s) == {CharAt(s, i) : i \in 1..Len(s)}

\* a table given by two strings: the character at each position of from is
\* mapped to the character at that position of to
CharTable(from, to) ==
    [c \in Chars(from) |-> CharAt(to, CHOOSE i \in 1..Len(from) : CharAt(from, i) = c)]

LowerCaseOf == CharTable(UpperCaseLetters, LowerCaseOfLetters)

NoLowerCase == Chars(LowerCaseNotWritable)

\* the image of the character c in a table of characters: the table's for a
\* character it holds, none for a character of missing, else c itself
Mapped(c, table, missing) ==
    CASE c \in DOMAIN table -> table[c]
      [] c \notin DOMAIN table /\ c \notin missing -> c

\* c.lower() of a single character; it has no value here for a letter of
\* NoLowerCase
LowerChar(c) == Mapped(c, LowerCaseOf, NoLowerCase)

\* the cased characters that are not case-ignorable
CasedLetters ==
    "ABCDEFGHIJKLMNOPQRSTUVWXYZabcdefghijklmnopqrstuvwxyzªµºÀÁÂÃÄÅÆÇÈÉÊËÌÍÎÏÐÑÒÓÔÕÖØÙÚÛÜÝÞßàáâãäåæçèéêëìíîïðñòóôõöøùúûüýþÿƀƁƂƃƄƅƆƇƈƉƊƋƌƍƎƏƐƑƒƓƔƕƖƗƘƙƚƛƜƝƞƟƠơƢƣƤƥƦƧƨƩƪƫƬƭƮƯưƱƲƳƴƵƶƷƸƹƺƼƽƾƿǄǅǆǇǈǉǊǋǌǍǎǏǐǑǒǓǔǕǖǗǘǙǚǛǜǝǞǟǠǡǢǣǤǥǦǧǨǩǪǫǬǭǮǯǰǱǲǳǴǵǶǷǸǹǺǻǼǽǾǿʀʁʂʃʄʅʆʇʈʉʊʋʌʍʎʏʐʑʒʓʕʖʗʘʙʚʛʜʝʞʟʠʡʢʣʤʥʦʧʨʩʪʫʬʭʮʯΆΈΉΊΌΎΏΐΑΒΓΔΕΖΗΘΙΚΛΜΝΞΟΠΡΣΤΥΦΧΨΩΪΫάέήίΰαβγδεζηθικλμνξοπρςστυφχψωϊϋόύώϏϐϑϒϓϔϕϖϗϘϙϚϛϜϝϞϟϠϡϢϣϤϥϦϧϨϩϪϫϬϭϮϯϰϱϲϳϴϵϷϸϹϺϻϼϽϾϿҀҁҊҋҌҍҎҏҐґҒғҔҕҖҗҘҙҚқҜҝҞҟҠҡҢңҤҥҦҧҨҩҪҫҬҭҮүҰұҲҳҴҵҶҷҸҹҺһҼҽҾҿӀӁӂӃӄӅӆӇӈӉӊӋӌӍӎӏӐӑӒӓӔӕӖӗӘәӚӛӜӝӞӟӠӡӢӣӤӥӦӧӨөӪӫӬӭӮӯӰӱӲӳӴӵӶӷӸӹӺӻӼӽӾӿրցւփքօֆևֈႠႡႢႣႤႥႦႧႨႩႪႫႬႭႮႯႰႱႲႳႴႵႶႷႸႹႺႻႼႽႾႿჀჁჂჃჄჅჇჍაბგდევზთიკლმნოპჟრსტუფქღყშჩცძწჭხჯჰჱჲჳჴჵჶჷჸჹჺჽჾჿᎠᎡᎢᎣᎤᎥᎦᎧᎨᎩᎪᎫᎬᎭᎮᎯᎰᎱᎲᎳᎴᎵᎶᎷᎸᎹᎺᎻᎼᎽᎾᎿᏀᏁᏂᏃᏄᏅᏆᏇᏈᏉᏊᏋᏌᏍᏎᏏᏐᏑᏒᏓᏔᏕᏖᏗᏘᏙᏚᏛᏜᏝᏞᏟᏠᏡᏢᏣᏤᏥᏦᏧᏨᏩᏪᏫᏬᏭᏮᏯᏰᏱᏲᏳᏴᏵᏸᏹᏺᏻᏼᏽᲀᲁᲂᲃᲄᲅᲆᲇᲈᲐᲑᲒᲓᲔᲕᲖᲗᲘᲙᲚᲛᲜᲝᲞᲟᲠᲡᲢᲣᲤᲥᲦᲧᲨᲩᲪᲫᲬᲭᲮᲯᲰᲱᲲᲳᲴᲵᲶᲷᲸᲹᲺᲽᲾᲿᶀᶁᶂᶃᶄᶅᶆᶇᶈᶉᶊᶋᶌᶍᶎᶏᶐᶑᶒᶓᶔᶕᶖᶗᶘᶙᶚẀẁẂẃẄẅẆẇẈẉẊẋẌẍẎẏẐẑẒẓẔẕẖẗẘẙẚẛẜẝẞẟẠạẢảẤấẦầẨẩẪẫẬậẮắẰằẲẳẴẵẶặẸẹẺẻẼẽẾếỀềỂểỄễỆệỈỉỊịỌọỎỏỐốỒồỔổỖỗỘộỚớỜờỞởỠỡỢợỤụỦủỨứỪừỬửỮữỰựỲỳỴỵỶỷỸỹỺỻỼỽỾỿᾀᾁᾂᾃᾄᾅᾆᾇᾈᾉᾊᾋᾌᾍᾎᾏᾐᾑᾒᾓᾔᾕᾖᾗᾘᾙᾚᾛᾜᾝᾞᾟᾠᾡᾢᾣᾤᾥᾦᾧᾨᾩᾪᾫᾬᾭᾮᾯᾰᾱᾲᾳᾴᾶᾷᾸᾹᾺΆᾼιῂῃῄῆῇῈΈῊΉῌῐῑῒΐῖῗῘῙῚΊῠῡῢΰῤῥῦῧῨῩῪΎῬῲῳῴῶῷῸΌῺΏῼↃↄⒶⒷⒸⒹⒺⒻⒼⒽⒾⒿⓀⓁⓂⓃⓄⓅⓆⓇⓈⓉⓊⓋⓌⓍⓎⓏⓐⓑⓒⓓⓔⓕⓖⓗⓘⓙⓚⓛⓜⓝⓞⓟⓠⓡⓢⓣⓤⓥⓦⓧⓨⓩⲀⲁⲂⲃⲄⲅⲆⲇⲈⲉⲊⲋⲌⲍⲎⲏⲐⲑⲒⲓⲔⲕⲖⲗⲘⲙⲚⲛⲜⲝⲞⲟⲠⲡⲢⲣⲤⲥⲦⲧⲨⲩⲪⲫⲬⲭⲮⲯⲰⲱⲲⲳⲴⲵⲶⲷⲸⲹⲺⲻⲼⲽⲾⲿⳀⳁⳂⳃⳄⳅⳆⳇⳈⳉⳊⳋⳌⳍⳎⳏⳐⳑⳒⳓⳔⳕⳖⳗⳘⳙⳚⳛⳜⳝⳞⳟⳠⳡⳢⳣⳤⳫⳬⳭⳮⳲⳳꚀꚁꚂꚃꚄꚅꚆꚇꚈꚉꚊꚋꚌꚍꚎꚏꚐꚑꚒꚓꚔꚕꚖꚗꚘꚙꚚꚛꞀꞁꞂꞃꞄꞅꞆꞇꞋꞌꞍꞎꞐꞑꞒꞓꞔꞕꞖꞗꞘꞙꞚꞛꞜꞝꞞꞟꞠꞡꞢꞣꞤꞥꞦꞧꞨꞩꞪꞫꞬꞭꞮꞯꞰꞱꞲꞳꞴꞵꞶꞷꞸꞹꞺꞻꞼꞽꞾꞿꟀꟁꟂꟃꟄꟅꟆꟇꟈꟉꟊꟐꟑꟓꟕꟖꟗꟘꟙꟵꟶꟺꮀꮁꮂꮃꮄꮅꮆꮇꮈꮉꮊꮋꮌꮍꮎꮏꮐꮑꮒꮓꮔꮕꮖꮗꮘꮙꮚꮛꮜꮝꮞꮟꮠꮡꮢꮣꮤꮥꮦꮧꮨꮩꮪꮫꮬꮭꮮꮯꮰꮱꮲꮳꮴꮵꮶꮷꮸꮹꮺꮻꮼꮽꮾꮿ"

\* the case-ignorable characters
CaseIgnorables ==
    "'.:^¨­¯´·¸ʰʱʲʳʴʵʶʷʸʹʺʻʼʽʾʿˀˁ˂˃˄˅ˆˇˈˉˊˋˌˍˎˏːˑ˒˓˔˕˖˗˘˙˚˛˜˝˞˟ˠˡˢˣˤ˥˦˧˨˩˪˫ˬ˭ˮ˯˰˱˲˳˴˵˶˷˸˹˺˻˼˽˾˿΄΅·҃҄҅҆҇҈҉ְֱֲֳִֵֶַָׇֹֺֻּֽֿׁׂ֑֖֛֢֣֤֥֦֧֪ׅ֚֭֮֒֓֔֕֗֘֙֜֝֞֟֠֡֨֩֫֬֯ׄ״ۖۗۘۙۚۛۜ۝ۣ۟۠ۡۢۤۥۦ۪ۭۧۨ۫۬ަާިީުޫެޭޮޯް߲߫߬߭߮߯߰߱߳ߴߵߺ߽࢈࢐࢑࢙࢚࢛࢘࢜࢝࢞࢟ࣉ࣏࣐࣑࣒࣓࣊࣋࣌࣍࣎ࣔࣕࣖࣗࣘࣙࣚࣛࣜࣝࣞࣟ࣠࣡࣢ࣰࣱࣲࣣࣦࣩ࣭࣮࣯ࣶࣹࣺࣤࣥࣧࣨ࣪࣫࣬ࣳࣴࣵࣷࣸࣻࣼࣽࣾࣿঁ়ুূৃৄ্ৢৣ৾ઁં઼ુૂૃૄૅેૈ્ૢૣૺૻૼ૽૾૿ஂீ்ಁ಼ಿೆೌ್ೢೣඁ්ිීුූັິີຶື຺ຸູົຼໆ່້໊໋໌ໍ྄ཱྀྀྂྃ྆྇ྍྎྏྐྑྒྒྷྔྕྖྗྙྚྛྜྜྷྞྟྠྡྡྷྣྤྥྦྦྷྨྩྪྫྫྷྭྮྯྰྱྲླྴྵྶྷྸྐྵྺྻྼ࿆ႂႅႆႍႝჼ឴឵ិីឹឺុូួំ៉៊់៌៍៎៏័៑្៓ៗ៝ᢅᢆᢩᪧ᪵᪶᪷᪸᪹᪺᪽᪰᪱᪲᪳᪴᪻᪼᪾ᪿᫀ᫃᫄᫊᫁᫂᫅᫆᫇᫈᫉᫋ᫌᫍᫎᮀᮁᮢᮣᮤᮥᮨᮩ᮫ᮬᮭ᯦ᯨᯩᯭᯯᯰᯱ᳔᳢᳣᳤᳥᳦᳧᳨᳕᳖᳗᳘᳙᳜᳝᳞᳟᳭᳐᳑᳒᳚᳛᳠᳴᳸᳹ᶛᶜᶝᶞᶟᶠᶡᶢᶣᶤᶥᶦᶧᶨᶩᶪᶫᶬᶭᶮᶯᶰᶱᶲᶳᶴᶵᶶᶷᶸᶹᶺᶻᶼᶽᶾᶿ᷐᷎᷺᷂᷊᷏᷹᷽᷿᷷᷸᷀᷁᷃᷄᷅᷆᷇᷈᷉᷋᷌᷑᷒ᷓᷔᷕᷖᷗᷘᷙᷚᷛᷜᷝᷞᷟᷠᷡᷢᷣᷤᷥᷦᷧᷨᷩᷪᷫᷬᷭᷮᷯᷰᷱᷲᷳᷴ᷵᷻᷾᷶᷼᷍᾽᾿῀῁῍῎῏῝῞῟῭΅`´῾ₐₑₒₓₔₕₖₗₘₙₚₛₜ⃒⃓⃘⃙⃚⃐⃑⃔⃕⃖⃗⃛⃜⃝⃞⃟⃠⃡⃢⃣⃤⃥⃦⃪⃫゙゚⃨⃬⃭⃮⃯⃧⃩⃰⳯⳰⳱ⷠⷡⷢⷣⷤⷥⷦⷧⷨⷩⷪⷫⷬⷭⷮⷯⷰⷱⷲⷳⷴⷵⷶⷷⷸⷹⷺⷻⷼⷽⷾⷿ゛゜ゝゞーヽヾꓸꓹꓺꓻꓼꓽꚜꚝꚞꚟ꛰꛱ꞈ꞉꞊ꟲꟳꟴꟸꟹ꣄ꣅ꣠꣡꣢꣣꣤꣥꣦꣧꣨꣩꣪꣫꣬꣭꣮꣯꣰꣱ꣿꦀꦁꦂ꦳ꦶꦷꦸꦹꦼꦽꧏꧥꧦꪴꪰꪲꪳꪷꪸꪾ꪿꫁ꫝꫬꫭꫳꫴ꫶ꯥꯨ꯭﮲﮳﮴﮵﮶﮷﮸﮹﮺﮻﮼﮽﮾﮿﯀﯁﯂﻿ﾞﾟ￣￹￺￻"

Cased == Chars(CasedLetters)

CaseIgnorable == Chars(CaseIgnorables)

\* what a character is to the final-sigma rule
Kind(ch, ignorable, cased) ==
    IF ch \in ignorable THEN "ignorable" ELSE IF ch \in cased THEN "cased" ELSE "other"

\* position i of a string whose characters are of the kinds seen has a cased
\* letter before it and none after it, case-ignorable characters skipped on
\* both sides
FinalIn(seen, i) ==
    /\ \E j \in 1..(i - 1) :
          seen[j] = "cased" /\ \A k \in (j + 1)..(i - 1) : seen[k] = "ignorable"
    /\ ~\E j \in (i + 1)..Len(seen) :
          seen[j] = "cased" /\ \A k \in (i + 1)..(j - 1) : seen[k] = "ignorable"

\* the capital sigma at position i of s is final
FinalSigma(s, i) ==
    FinalIn([j \in 1..Len(s) |-> Kind(CharAt(s, j), CaseIgnorable, Cased)], i)

RECURSIVE LowerFrom(_, _)
\* s[i:] lowered as part of s: each character by LowerChar, but a final capital
\* sigma becomes the final small sigma
LowerFrom(s, i) ==
    IF i > Len(s) THEN ""
    ELSE (IF CharAt(s, i) = "Σ" /\ FinalSigma(s, i) THEN "ς"
          ELSE LowerChar(CharAt(s, i))) \o LowerFrom(s, i + 1)

\* str.lower()
Lower(s) == LowerFrom(s, 1)

\* not s.strip()   (for a non-empty or empty s: no non-whitespace character)
IsBlank(s) == \A i \in 1..Len(s) : CharAt(s, i) \in Whitespace

\* s.strip()
Strip(s) ==
    IF IsBlank(s) THEN ""
    ELSE LET first == CHOOSE i \in 1..Len(s) :
                          /\ CharAt(s, i) \notin Whitespace
                          /\ \A j \in 1..(i - 1) : CharAt(s, j) \in Whitespace
             last  == CHOOSE i \in 1..Len(s) :
                          /\ CharAt(s, i) \notin Whitespace
                          /\ \A j \in (i + 1)..Len(s) : CharAt(s, j) \in Whitespace
         IN  SubSeq(s, first, last)

-----------------------------------------------------------------------------
(* Regular expressions, as far as the risk patterns use them *)

\* s[i-1:].startswith(x), for a 1-based position i
StartsAt(s, i, x) ==
    /\ i + Len(x) - 1 <= Len(s)
    /\ SubSeq(s, i, i + Len(x) - 1) = x

Lit(s) == [t |-> "lit", s |-> s]

Alt(rs) == [t |-> "alt", rs |-> rs]

Cat(rs) == [t |-> "cat", rs |-> rs]

Opt(r) == [t |-> "opt", r |-> r]

WS1 == [t |-> "ws1"]   \* \s+

WS0 == [t |-> "ws0"]   \* \s*

RECURSIVE Ends(_, _, _)
RECURSIVE EndsCat(_, _, _, _)
\* the positions just after a match of re that starts at position i of s
Ends(re, s, i) ==
    CASE re.t = "words" -> {i + Len(w) : w \in {x \in re.ws : StartsAt(s, i, x)}}
      [] re.t = "lit" -> IF StartsAt(s, i, re.s) THEN {i + Len(re.s)} ELSE {}
      [] re.t = "cat" -> EndsCat(re.rs, 1, s, {i})
      [] re.t = "ws1" ->
            {j \in (i + 1)..(Len(s) + 1) :
                \A k \in i..(j - 1) : CharAt(s, k) \in Whitespace}
      [] re.t = "opt" -> {i} \cup Ends(re.r, s, i)
      [] re.t = "alt" -> UNION {Ends(re.rs[k], s, i) : k \in DOMAIN re.rs}
      [] re.t = "ws0" ->
            {j \in i..(Len(s) + 1) :
                \A k \in i..(j - 1) : CharAt(s, k) \in Whitespace}

EndsCat(rs, k, s, from) ==
    IF from = {} \/ k > Len(rs) THEN from
    ELSE EndsCat(rs, k + 1, s, UNION {Ends(rs[k], s, i) : i \in from})

\* re.search(pattern, s) is not None
Search(re, s) == \E i \in 1..(Len(s) + 1) : Ends(re, s, i) # {}

\* (?:w1|w2|...) over a set of literal words
Words(ws) == [t |-> "words", ws |-> ws]

-----------------------------------------------------------------------------
(* ai_service/risk_detector.py *)

HIGH_RISK_KEYWORDS ==
    << "kill myself", "want to die", "hurt myself", "end my life", "suicide",
       "self harm", "self-harm", "cut myself", "don't want to live",
       "don't want to be alive", "better off dead", "no reason to live",
       "end it all", "take my own life", "overdose" >>

MEDIUM_RISK_PATTERNS ==
    << \* feel(?:ing)?\s+(?:so\s+)?(?:hopeless|worthless|empty|numb)
       Cat(<<Lit("feel"), Opt(Lit("ing")), WS1, Opt(Cat(<<Lit("so"), WS1>>)),
             Words({"hopeless", "worthless", "empty", "numb"})>>),
       \* (?:nobody|no\s*one)\s+(?:cares|loves|understands)
       Cat(<<Alt(<<Lit("nobody"), Cat(<<Lit("no"), WS0, Lit("one")>>)>>), WS1,
             Words({"cares", "loves", "understands"})>>),
       \* can'?t\s+(?:go on|take it|handle|cope)
       Cat(<<Lit("can"), Opt(Lit("'")), Lit("t"), WS1,
             Words({"go on", "take it", "handle", "cope"})>>),
       \* (?:hate|despise)\s+myself
       Cat(<<Words({"hate", "despise"}), WS1, Lit("myself")>>),
       \* (?:always|constantly)\s+(?:sad|depressed|anxious)
       Cat(<<Words({"always", "constantly"}), WS1,
             Words({"sad", "depressed", "anxious"})>>),
       \* (?:nothing|life)\s+(?:matters|has meaning)
       Cat(<<Words({"nothing", "life"}), WS1,
             Words({"matters", "has meaning"})>>),
       \* (?:trapped|stuck)\s+(?:in|with)
       Cat(<<Words({"trapped", "stuck"}), WS1, Words({"in", "with"})>>),
       \* (?:never|won't)\s+get\s+better
       Cat(<<Words({"never", "won't"}), WS1, Lit("get"), WS1, Lit("better")>>),
       \* burden\s+(?:to|on)\s+(?:everyone|others|family)
       Cat(<<Lit("burden"), WS1, Words({"to", "on"}), WS1,
             Words({"everyone", "others", "family"})>>) >>

LOW_RISK_PATTERNS ==
    << \* (?:stressed|overwhelmed|exhausted)
       Words({"stressed", "overwhelmed", "exhausted"}),
       \* (?:can'?t|unable\s+to)\s+sleep
       Cat(<<Alt(<<Cat(<<Lit("can"), Opt(Lit("'")), Lit("t")>>),
                   Cat(<<Lit("unable"), WS1, Lit("to")>>)>>), WS1, Lit("sleep")>>),
       \* (?:lonely|isolated|alone)
       Words({"lonely", "isolated", "alone"}),
       \* (?:worried|anxious)\s+about
       Cat(<<Words({"worried", "anxious"}), WS1, Lit("about")>>),
       \* feeling\s+(?:down|low|blue)
       Cat(<<Lit("feeling"), WS1, Words({"down", "low", "blue"})>>) >>

Max(a, b) == IF a >= b THEN a ELSE b

Min(a, b) == IF a <= b THEN a ELSE b

\* the factors returned as collected, without the deduplication
Dedup_Skipped(fs, seen) == fs

RECURSIVE Dedup(_, _)
\* list(dict.fromkeys(factors)): first occurrences, in order
Dedup(fs, seen) ==
    IF fs = <<>> THEN <<>>
    ELSE IF Head(fs) \in seen THEN Dedup(Tail(fs), seen)
         ELSE <<Head(fs)>> \o Dedup(Tail(fs), seen \cup {Head(fs)})

\* the keywords of HIGH_RISK_KEYWORDS found in text_lower, in list order
HighRiskMatches(text_lower) ==
    SelectSeq(HIGH_RISK_KEYWORDS, LAMBDA k : Contains(text_lower, k))

\* the patterns of MEDIUM_RISK_PATTERNS found in text_lower, in list order
MediumRiskMatches(text_lower) ==
    SelectSeq(MEDIUM_RISK_PATTERNS, LAMBDA p : Search(p, text_lower))

LowRiskMatch(text_lower) ==
    \E k \in DOMAIN LOW_RISK_PATTERNS : Search(LOW_RISK_PATTERNS[k], text_lower)

\* the high-risk stage with the score of the medium-risk stage
HighRiskStage_MediumScore(st, text_lower) ==
    LET ms == HighRiskMatches(text_lower)
    IN  [score   |-> IF ms = <<>> THEN st.score ELSE Max(st.score, 55),
         factors |-> st.factors \o
                     [k \in 1..Len(ms) |->
                        "High-risk keyword detected: '" \o ms[k] \o "'"]]

\* lines 74-78: st is [score, factors]
HighRiskStage(st, text_lower) ==
    LET ms == HighRiskMatches(text_lower)
    IN  [score   |-> IF ms = <<>> THEN st.score ELSE Max(st.score, 85),
         factors |-> st.factors \o
                     [k \in 1..Len(ms) |->
                        "High-risk keyword detected: '" \o ms[k] \o "'"]]

\* lines 80-85
MediumRiskStage(st, text_lower) ==
    LET ms == MediumRiskMatches(text_lower)
    IN  [score   |-> IF ms = <<>> THEN st.score ELSE Max(st.score, 55),
         factors |-> st.factors \o
                     [k \in 1..Len(ms) |-> "Distress pattern detected"]]

\* the low-risk stage that assigns 25 whenever a pattern matches
LowRiskStage_Assigns25(st, text_lower) ==
    IF LowRiskMatch(text_lower)
    THEN [score   |-> 25,
          factors |-> Append(st.factors, "Stress indicator detected")]
    ELSE st

\* lines 87-93
LowRiskStage(st, text_lower) ==
    IF LowRiskMatch(text_lower)
    THEN [score   |-> IF st.score < 40 THEN Max(st.score, 25) ELSE st.score,
          factors |-> Append(st.factors, "Stress indicator detected")]
    ELSE st

\* the adjustment table with a larger discount for joy
EmotionAdjustment_JoyMinus20(emotion) ==
    LET e == Lower(emotion)
    IN  CASE e = "sadness"  -> 15
          [] e = "fear"     -> 12
          [] e = "anger"    -> 8
          [] e = "disgust"  -> 5
          [] e = "joy"      -> -20
          [] OTHER          -> 0

\* lines 97-106: emotion_adjustments.get(emotion.lower(), 0)
EmotionAdjustment(emotion) ==
    LET e == Lower(emotion)
    IN  CASE e = "sadness"  -> 15
          [] e = "fear"     -> 12
          [] e = "anger"    -> 8
          [] e = "disgust"  -> 5
          [] e = "surprise" -> 0
          [] e = "neutral"  -> 0
          [] e = "joy"      -> -10
          [] OTHER          -> 0

\* lines 95-110: emotion is Optional[str]; "if emotion:" also skips ""
EmotionStage(st, emotion) ==
    IF emotion = None \/ emotion[1] = "" THEN st
    ELSE LET adjustment == EmotionAdjustment(emotion[1])
         IN  [score   |-> st.score + adjustment,
              factors |-> IF adjustment > 0
                          THEN Append(st.factors,
                                      "Negative emotion detected: " \o emotion[1])
                          ELSE st.factors]

\* the sentiment stage with the boundaries in the lower case (<= for <)
SentimentStage_Inclusive(st, sentiment) ==
    IF sentiment = None THEN st
    ELSE IF sentiment[1] <= -6000
         THEN [score   |-> st.score + 10,
               factors |-> Append(st.factors, "Very negative sentiment")]
         ELSE IF sentiment[1] <= -3000
              THEN [score   |-> st.score + 5,
                    factors |-> Append(st.factors, "Negative sentiment")]
              ELSE st

\* lines 112-119: sentiment is Optional[float], in 1/10000
SentimentStage(st, sentiment) ==
    IF sentiment = None THEN st
    ELSE IF sentiment[1] < -6000
         THEN [score   |-> st.score + 10,
               factors |-> Append(st.factors, "Very negative sentiment")]
         ELSE IF sentiment[1] < -3000
              THEN [score   |-> st.score + 5,
                    factors |-> Append(st.factors, "Negative sentiment")]
              ELSE st

\* the clamp without its upper bound
ClampScore_NoUpperBound(base_score) == Max(0, base_score)

\* line 122
ClampScore(base_score) == Max(0, Min(100, base_score))

\* lines 124-130
LevelOf(final_score) ==
    IF final_score >= 70 THEN "HIGH"
    ELSE IF final_score >= 35 THEN "MEDIUM" ELSE "LOW"

\* line 67: "if not text"
EmptyText(text) == text = ""

\* lines 70-119: base_score and factors at the start and after each of the
\* five stages
RiskStages(text, emotion, sentiment) ==
    LET text_lower == Lower(text)
        s0         == [score |-> 0, factors |-> <<>>]
        s1         == HighRiskStage(s0, text_lower)
        s2         == MediumRiskStage(s1, text_lower)
        s3         == LowRiskStage(s2, text_lower)
        s4         == EmotionStage(s3, emotion)
        s5         == SentimentStage(s4, sentiment)
    IN  <<s0, s1, s2, s3, s4, s5>>

\* detect_risk(text, emotion, sentiment)
detect_risk(text, emotion, sentiment) ==
    IF EmptyText(text) THEN [level |-> "LOW", score |-> 0, factors |-> <<>>]
    ELSE LET text_lower  == Lower(text)
             s1          == HighRiskStage([score |-> 0, factors |-> <<>>], text_lower)
             s2          == MediumRiskStage(s1, text_lower)
             s3          == LowRiskStage(s2, text_lower)
             s4          == EmotionStage(s3, emotion)
             s5          == SentimentStage(s4, sentiment)
             final_score == ClampScore(s5.score)
         IN  [level   |-> LevelOf(final_score),
              score   |-> final_score,
              factors |-> Dedup(s5.factors, {})]

\* lines 194-201
crisis_indicators ==
    {"kill myself", "suicide", "want to die", "going to hurt myself",
     "end my life", "overdose"}

\* the crisis check with a phrase of the distress patterns among its indicators
check_for_crisis_ListsHateMyself(text) ==
    \E k \in crisis_indicators \cup {"hate myself"} : Contains(Lower(text), k)

\* check_for_crisis(text)
check_for_crisis(text) ==
    \E k \in crisis_indicators : Contains(Lower(text), k)

-----------------------------------------------------------------------------
(* Numbers *)

Abs(x) == IF x < 0 THEN -x ELSE x

\* n / d for d > 0, rounded to the nearest integer, ties to even (Python round)
RoundDiv(n, d) ==
    LET q == n \div d
        r == n - q * d
    IN  IF 2 * r < d THEN q
        ELSE IF 2 * r > d THEN q + 1
        ELSE IF q % 2 = 0 THEN q ELSE q + 1

RECURSIVE DoubledMod(_, _)
\* x * 2^times modulo 100000
DoubledMod(x, times) ==
    IF times = 0 THEN x ELSE DoubledMod((2 * x) % 100000, times - 1)

RECURSIVE UnitShift(_, _)
\* k plus the number of doublings that bring n > 0 to 100000 or more: the
\* float of n / 100000, n < 100000, has the binary exponent -UnitShift(n, 0)
UnitShift(n, k) ==
    IF n >= 100000 THEN k ELSE UnitShift(2 * n, k + 1)

\* the side of the decimal n / 100000 (0 < n < 100000) on which the float
\* nearest to it lies: 1 above, -1 below, 0 if the float is the decimal.
\* The float keeps 53 binary digits; the digits after them decide, with a tie
\* of the binary digits going to the even float
FloatSide(n) ==
    LET shift     == UnitShift(n, 0) + 52
        before    == DoubledMod(n, shift - 1)
        remainder == (2 * before) % 100000
        odd       == 2 * before >= 100000
    IN  IF remainder = 0 THEN 0
        ELSE IF remainder < 50000 THEN -1
        ELSE IF remainder > 50000 THEN 1
        ELSE IF odd THEN 1 ELSE -1

\* round(x, 4) of the float of n / 100000, n >= 0, as a value in 1/10000:
\* round() rounds the float, not the decimal, so a decimal tie is decided by
\* the side of the float, and goes to the even neighbour only if the float is
\* the tie exactly
Round4Magnitude(n) ==
    LET q == n \div 10
        r == n % 10
    IN  IF r < 5 THEN q
        ELSE IF r > 5 THEN q + 1
        ELSE LET side == FloatSide(n)
             IN  IF side > 0 THEN q + 1
                 ELSE IF side < 0 THEN q
                 ELSE IF q % 2 = 0 THEN q ELSE q + 1

\* round(x, 4) of a backend score given in 1/100000, as a value in 1/10000
Round4(x) == IF x < 0 THEN -Round4Magnitude(-x) ELSE Round4Magnitude(x)

\* the letters that str.upper() changes into one character, among the
\* characters that can be written in a string of this module together with
\* their upper case
LowerCaseLetters ==
    "abcdefghijklmnopqrstuvwxyzµàáâãäåæçèéêëìíîïðñòóôõöøùúûüýþƃƅƈƌƒƕƙơƣƥƨƭưƴƶƹƽƿǅǆǈǉǋǌǎǐǒǔǖǘǚǜǝǟǡǣǥǧǩǫǭǯǲǳǵǹǻǽǿʀʂʃʇʈʊʋʒʝʞάέήίαβγδεζηθικλμνξοπρςστυφχψωϊϋόύώϐϑϕϖϗϙϛϝϟϡϣϥϧϩϫϭϯϰϱϲϵϸϻҁҋҍҏґғҕҗҙқҝҟҡңҥҧҩҫҭүұҳҵҷҹһҽҿӂӄӆӈӊӌӎӏӑӓӕӗәӛӝӟӡӣӥӧөӫӭӯӱӳӵӷӹӻӽӿაბგდევზთიკლმნოპჟრსტუფქღყშჩცძწჭხჯჰჱჲჳჴჵჶჷჸჹჺჽჾჿᏸᏹᏺᏻᏼᏽᶎẁẃẅẇẉẋẍẏẑẓẕạảấầẩẫậắằẳẵặẹẻẽếềểễệỉịọỏốồổỗộớờởỡợụủứừửữựỳỵỷỹỻỽỿᾰᾱιῐῑῠῡῥↄⓐⓑⓒⓓⓔⓕⓖⓗⓘⓙⓚⓛⓜⓝⓞⓟⓠⓡⓢⓣⓤⓥⓦⓧⓨⓩⲁⲃⲅⲇⲉⲋⲍⲏⲑⲓⲕⲗⲙⲛⲝⲟⲡⲣⲥⲧⲩⲫⲭⲯⲱⲳⲵⲷⲹⲻⲽⲿⳁⳃⳅⳇⳉⳋⳍⳏⳑⳓⳕⳗⳙⳛⳝⳟⳡⳣⳬⳮⳳꚁꚃꚅꚇꚉꚋꚍꚏꚑꚓꚕꚗꚙꚛꞁꞃꞅꞇꞌꞑꞓꞔꞗꞙꞛꞝꞟꞡꞣꞥꞧꞩꞵꞷꞹꞻꞽꞿꟁꟃꟈꟊꟑꟗꟙꟶꮀꮁꮂꮃꮄꮅꮆꮇꮈꮉꮊꮋꮌꮍꮎꮏꮐꮑꮒꮓꮔꮕꮖꮗꮘꮙꮚꮛꮜꮝꮞꮟꮠꮡꮢꮣꮤꮥꮦꮧꮨꮩꮪꮫꮬꮭꮮꮯꮰꮱꮲꮳꮴꮵꮶꮷꮸꮹꮺꮻꮼꮽꮾꮿ"

\* their upper case, position by position
UpperCaseOfLetters ==
    "ABCDEFGHIJKLMNOPQRSTUVWXYZΜÀÁÂÃÄÅÆÇÈÉÊËÌÍÎÏÐÑÒÓÔÕÖØÙÚÛÜÝÞƂƄƇƋƑǶƘƠƢƤƧƬƯƳƵƸƼǷǄǄǇǇǊǊǍǏǑǓǕǗǙǛƎǞǠǢǤǦǨǪǬǮǱǱǴǸǺǼǾƦꟅƩꞱƮƱƲƷꞲꞰΆΈΉΊΑΒΓΔΕΖΗΘΙΚΛΜΝΞΟΠΡΣΣΤΥΦΧΨΩΪΫΌΎΏΒΘΦΠϏϘϚϜϞϠϢϤϦϨϪϬϮΚΡϹΕϷϺҀҊҌҎҐҒҔҖҘҚҜҞҠҢҤҦҨҪҬҮҰҲҴҶҸҺҼҾӁӃӅӇӉӋӍӀӐӒӔӖӘӚӜӞӠӢӤӦӨӪӬӮӰӲӴӶӸӺӼӾᲐᲑᲒᲓᲔᲕᲖᲗᲘᲙᲚᲛᲜᲝᲞᲟᲠᲡᲢᲣᲤᲥᲦᲧᲨᲩᲪᲫᲬᲭᲮᲯᲰᲱᲲᲳᲴᲵᲶᲷᲸᲹᲺᲽᲾᲿᏰᏱᏲᏳᏴᏵꟆẀẂẄẆẈẊẌẎẐẒẔẠẢẤẦẨẪẬẮẰẲẴẶẸẺẼẾỀỂỄỆỈỊỌỎỐỒỔỖỘỚỜỞỠỢỤỦỨỪỬỮỰỲỴỶỸỺỼỾᾸᾹΙῘῙῨῩῬↃⒶⒷⒸⒹⒺⒻⒼⒽⒾⒿⓀⓁⓂⓃⓄⓅⓆⓇⓈⓉⓊⓋⓌⓍⓎⓏⲀⲂⲄⲆⲈⲊⲌⲎⲐⲒⲔⲖⲘⲚⲜⲞⲠⲢⲤⲦⲨⲪⲬⲮⲰⲲⲴⲶⲸⲺⲼⲾⳀⳂⳄⳆⳈⳊⳌⳎⳐⳒⳔⳖⳘⳚⳜⳞⳠⳢⳫⳭⳲꚀꚂꚄꚆꚈꚊꚌꚎꚐꚒꚔꚖꚘꚚꞀꞂꞄꞆꞋꞐꞒꟄꞖꞘꞚꞜꞞꞠꞢꞤꞦꞨꞴꞶꞸꞺꞼꞾꟀꟂꟇꟉꟐꟖꟘꟵᎰᎱᎲᎳᎴᎵᎶᎷᎸᎹᎺᎻᎼᎽᎾᎿᏀᏁᏂᏃᏄᏅᏆᏇᏈᏉᏊᏋᏌᏍᏎᏏᏐᏑᏒᏓᏔᏕᏖᏗᏘᏙᏚᏛᏜᏝᏞᏟᏠᏡᏢᏣᏤᏥᏦᏧᏨᏩᏪᏫᏬᏭᏮᏯ"

\* the letters whose upper case cannot be written in a string of this module
UpperCaseNotWritable ==
    "ÿƀƚƞǰʉʌΐΰϳրցւփքօֆևᲀᲁᲂᲃᲄᲅᲆᲇᲈẖẗẘẙẛᾀᾁᾂᾃᾄᾅᾆᾇᾈᾉᾊᾋᾌᾍᾎᾏᾐᾑᾒᾓᾔᾕᾖᾗᾘᾙᾚᾛᾜᾝᾞᾟᾠᾡᾢᾣᾤᾥᾦᾧᾨᾩᾪᾫᾬᾭᾮᾯᾶᾷῆῇῒΐῖῗῢΰῤῦῧῶῷ"

\* the letters whose upper case is more than one character, each with its
\* upper case
LongUpperCase ==
    ("ß" :> "SS") @@ ("ẚ" :> "Aʾ") @@ ("ᾲ" :> "ᾺΙ") @@ ("ᾳ" :> "ΑΙ")
    @@ ("ᾴ" :> "ΆΙ") @@ ("ᾼ" :> "ΑΙ") @@ ("ῂ" :> "ῊΙ") @@ ("ῃ" :> "ΗΙ")
    @@ ("ῄ" :> "ΉΙ") @@ ("ῌ" :> "ΗΙ") @@ ("ῲ" :> "ῺΙ") @@ ("ῳ" :> "ΩΙ")
    @@ ("ῴ" :> "ΏΙ") @@ ("ῼ" :> "ΩΙ")

UpperCaseOf == CharTable(LowerCaseLetters, UpperCaseOfLetters) @@ LongUpperCase

NoUpperCase == Chars(UpperCaseNotWritable)

\* c.upper() of a single character (one character or more); it has no value
\* here for a letter of NoUpperCase
UpperChar(c) == Mapped(c, UpperCaseOf, NoUpperCase)

RECURSIVE Upper(_)
\* str.upper()
Upper(s) ==
    IF s = "" THEN "" ELSE UpperChar(CharAt(s, 1)) \o Upper(SubSeq(s, 2, Len(s)))

-----------------------------------------------------------------------------
(* ai_service/emotion_classifier.py *)

\* emotion_keywords, in dict (insertion) order
EMOTION_KEYWORDS ==
    << [emotion |-> "joy",
        keywords |-> {"happy", "glad", "excited", "wonderful", "great", "love",
                      "amazing", "fantastic", "good"}],
       [emotion |-> "sadness",
        keywords |-> {"sad", "unhappy", "depressed", "down", "miserable",
                      "lonely", "hopeless", "crying", "tears"}],
       [emotion |-> "anger",
        keywords |-> {"angry", "mad", "furious", "annoyed", "frustrated", "hate",
                      "pissed"}],
       [emotion |-> "fear",
        keywords |-> {"scared", "afraid", "terrified", "anxious", "worried",
                      "nervous", "panic"}],
       [emotion |-> "surprise",
        keywords |-> {"surprised", "shocked", "amazed", "unexpected", "wow"}],
       [emotion |-> "disgust",
        keywords |-> {"disgusted", "gross", "sick", "revolting"}] >>

\* the keyword search that looks for the keywords of sadness before those of joy
fallback_classify_SadnessFirst(text) ==
    LET text_lower == Lower(text)
        Hit(k) == \E w \in EMOTION_KEYWORDS[k].keywords : Contains(text_lower, w)
        order  == <<2, 1, 3, 4, 5, 6>>
        hits   == {i \in DOMAIN order : Hit(order[i])}
    IN  IF hits = {} THEN [emotion |-> "neutral", confidence |-> 5000]
        ELSE LET first == CHOOSE i \in hits : \A j \in hits : i <= j
             IN  [emotion |-> EMOTION_KEYWORDS[order[first]].emotion,
                  confidence |-> 6000]

\* the keyword search in which the last emotion with a keyword in the text wins
fallback_classify_LastMatch(text) ==
    LET text_lower == Lower(text)
        hits == {k \in DOMAIN EMOTION_KEYWORDS :
                    \E w \in EMOTION_KEYWORDS[k].keywords : Contains(text_lower, w)}
    IN  IF hits = {} THEN [emotion |-> "neutral", confidence |-> 5000]
        ELSE LET last == CHOOSE k \in hits : \A j \in hits : k >= j
             IN  [emotion |-> EMOTION_KEYWORDS[last].emotion, confidence |-> 6000]

\* _fallback_classify(text)
fallback_classify(text) ==
    LET text_lower == Lower(text)
        hits == {k \in DOMAIN EMOTION_KEYWORDS :
                    \E w \in EMOTION_KEYWORDS[k].keywords : Contains(text_lower, w)}
    IN  IF hits = {} THEN [emotion |-> "neutral", confidence |-> 5000]
        ELSE LET first == CHOOSE k \in hits : \A j \in hits : k <= j
             IN  [emotion |-> EMOTION_KEYWORDS[first].emotion, confidence |-> 6000]

\* the getter trying the load again when the process is in fallback mode
get_classifier_Retry(handle, load_ok) ==
    IF handle \in {"None", "fallback"} THEN (IF load_ok THEN "pipeline" ELSE "fallback")
    ELSE handle

\* get_classifier(): handle is the global before the call, load_ok says whether
\* pipeline(...) would construct the model; the value returned and stored
get_classifier(handle, load_ok) ==
    IF handle = "None" THEN (IF load_ok THEN "pipeline" ELSE "fallback")
    ELSE handle

\* the blank check without the strip
BlankText_NoStrip(text) == text = ""

\* line 44 / sentiment line 39: "if not text or not text.strip()"
BlankText(text) == text = "" \/ IsBlank(text)

\* classify_emotion switching the process to fallback mode when a call raises
classify_emotion_FallbackAfterError(text, handle, load_ok, backend) ==
    IF BlankText(text)
    THEN [result |-> [emotion |-> "neutral", confidence |-> 0],
          handle |-> handle, events |-> <<>>]
    ELSE LET classifier == get_classifier(handle, load_ok)
             loaded     == IF handle = "None" THEN <<"load">> ELSE <<>>
         IN  IF classifier = "fallback"
             THEN [result |-> fallback_classify(text),
                   handle |-> classifier, events |-> loaded]
             ELSE IF backend.kind = "results" /\ Len(backend.results) > 0
                  THEN LET top_result == backend.results[1]
                       IN  [result |-> [emotion    |-> Lower(top_result.label),
                                        confidence |-> Round4(top_result.score)],
                            handle |-> classifier,
                            events |-> Append(loaded, "infer")]
                  ELSE [result |-> fallback_classify(text),
                        handle |-> "fallback",
                        events |-> Append(loaded, "infer")]

\* classify_emotion(text).  backend is what classifier(truncated_text) does if it
\* is called: [kind |-> "raise"] or [kind |-> "results", results |-> <<...>>]
\* with results a list of [label, score] (score in 1/100000).
\* Returns the result, the global afterwards, and the backend events of the call.
classify_emotion(text, handle, load_ok, backend) ==
    IF BlankText(text)
    THEN [result |-> [emotion |-> "neutral", confidence |-> 0],
          handle |-> handle, events |-> <<>>]
    ELSE LET classifier == get_classifier(handle, load_ok)
             loaded     == IF handle = "None" THEN <<"load">> ELSE <<>>
         IN  IF classifier = "fallback"
             THEN [result |-> fallback_classify(text),
                   handle |-> classifier, events |-> loaded]
             ELSE IF backend.kind = "results" /\ Len(backend.results) > 0
                  THEN LET top_result == backend.results[1]
                       IN  [result |-> [emotion    |-> Lower(top_result.label),
                                        confidence |-> Round4(top_result.score)],
                            handle |-> classifier,
                            events |-> Append(loaded, "infer")]
                  ELSE [result |-> fallback_classify(text),
                        handle |-> classifier,
                        events |-> Append(loaded, "infer")]

-----------------------------------------------------------------------------
(* ai_service/sentiment_analyzer.py *)

positive_words ==
    {"good", "great", "happy", "love", "wonderful", "amazing", "fantastic",
     "excellent", "best", "beautiful", "joy", "hope", "better", "improve",
     "grateful", "thanks", "helpful"}

negative_words ==
    {"bad", "terrible", "sad", "hate", "awful", "horrible", "worst", "pain",
     "hurt", "lonely", "hopeless", "scared", "angry", "frustrated", "tired",
     "exhausted", "stressed", "anxious", "worried", "depressed", "miserable"}

\* the polarity with thresholds of 0.5
FallbackPolarity_Half(difference, total) ==
    IF 2 * difference > total THEN "positive"
    ELSE IF 2 * difference < -total THEN "negative" ELSE "neutral"

\* lines 106-111: score > 0.2, score < -0.2 for the score difference / total
\* before it is rounded (total > 0)
FallbackPolarity(difference, total) ==
    IF 5 * difference > total THEN "positive"
    ELSE IF 5 * difference < -total THEN "negative" ELSE "neutral"

\* _fallback_analyze(text): each word of a list counts once if it occurs in the
\* text, as a substring; the score returned is rounded to 4 decimals
fallback_analyze(text) ==
    LET text_lower     == Lower(text)
        positive_count == Cardinality({w \in positive_words : Contains(text_lower, w)})
        negative_count == Cardinality({w \in negative_words : Contains(text_lower, w)})
        total          == positive_count + negative_count
    IN  IF total = 0 THEN [score |-> 0, polarity |-> "neutral"]
        ELSE [score |-> RoundDiv((positive_count - negative_count) * 10000,
                                 Max(total, 1)),
              polarity |-> FallbackPolarity(positive_count - negative_count, total)]

\* get_analyzer()
get_analyzer(handle, load_ok) ==
    IF handle = "None" THEN (IF load_ok THEN "pipeline" ELSE "fallback")
    ELSE handle

\* lines 53-72: the backend's first result [label, score] (score in 1/100000)
BackendSentiment(result) ==
    LET label           == Upper(result.label)
        sentiment_score == IF label = "POSITIVE" THEN result.score ELSE -result.score
        polarity        == IF Abs(sentiment_score) < 30000 THEN "neutral"
                           ELSE IF label = "POSITIVE" THEN "positive" ELSE "negative"
    IN  [score |-> Round4(sentiment_score), polarity |-> polarity]

\* analyze_sentiment(text), with the same conventions as classify_emotion
analyze_sentiment(text, handle, load_ok, backend) ==
    IF BlankText(text)
    THEN [result |-> [score |-> 0, polarity |-> "neutral"],
          handle |-> handle, events |-> <<>>]
    ELSE LET analyzer == get_analyzer(handle, load_ok)
             loaded   == IF handle = "None" THEN <<"load">> ELSE <<>>
         IN  IF analyzer = "fallback"
             THEN [result |-> fallback_analyze(text),
                   handle |-> analyzer, events |-> loaded]
             ELSE IF backend.kind = "results" /\ Len(backend.results) > 0
                  THEN [result |-> BackendSentiment(backend.results[1]),
                        handle |-> analyzer,
                        events |-> Append(loaded, "infer")]
                  ELSE [result |-> fallback_analyze(text),
                        handle |-> analyzer,
                        events |-> Append(loaded, "infer")]

-----------------------------------------------------------------------------
(* ai_service/llm_companion.py *)

PLACEHOLDER_KEY == "your_openai_api_key_here"

\* get_client(): the global afterwards
get_client(handle, key) ==
    IF handle = "None"
    THEN (IF key # "" /\ key # PLACEHOLDER_KEY THEN "AsyncOpenAI" ELSE "mock")
    ELSE handle

HIGH_RISK_REPLY ==
    "I hear that you're going through something really painful right now. "
    \o "I want you to know that you're not alone, and what you're feeling matters. "
    \o "Would it be possible to talk to someone you trust about this? "
    \o "I'm here to listen, and I care about you."

GREETING_REPLY ==
    "Hey! It's good to hear from you. "
    \o "How are you feeling today? I'm here if you want to talk about anything."

SADNESS_REPLY ==
    "It sounds like you're going through a tough time. "
    \o "I'm really sorry you're feeling this way. "
    \o "Would you like to tell me more about what's been going on?"

FEAR_REPLY ==
    "That sounds really stressful. It's completely understandable to feel worried. "
    \o "What's been weighing on your mind the most?"

ANGER_REPLY ==
    "I can hear that you're frustrated. Those feelings are valid. "
    \o "What happened that's got you feeling this way?"

JOY_REPLY ==
    "That's wonderful to hear! It sounds like something good is happening. "
    \o "I'd love to hear more about it!"

MEDIUM_RISK_REPLY ==
    "It sounds like things have been really hard lately. "
    \o "I want you to know that your feelings are valid, and it's okay to not be okay sometimes. "
    \o "What would feel helpful to talk about right now?"

DEFAULT_REPLY ==
    "I hear you. That sounds like something worth exploring. "
    \o "Would you like to tell me more about how you're feeling?"

\* the selector that looks at MEDIUM risk before the emotion
generate_mock_response_MediumFirst(message, emotion, risk_level) ==
    LET message_lower == Lower(message)
    IN  IF risk_level = Some("HIGH") THEN HIGH_RISK_REPLY
        ELSE IF \E word \in {"hi", "hello", "hey"} : Contains(message_lower, word)
             THEN GREETING_REPLY
        ELSE IF risk_level = Some("MEDIUM") THEN MEDIUM_RISK_REPLY
        ELSE IF emotion = Some("sadness") THEN SADNESS_REPLY
        ELSE IF emotion = Some("fear") \/ emotion = Some("anxiety") THEN FEAR_REPLY
        ELSE IF emotion = Some("anger") THEN ANGER_REPLY
        ELSE IF emotion = Some("joy") THEN JOY_REPLY
        ELSE DEFAULT_REPLY

\* _generate_mock_response(message, emotion, risk_level); the last two Optional
generate_mock_response(message, emotion, risk_level) ==
    LET message_lower == Lower(message)
    IN  IF risk_level = Some("HIGH") THEN HIGH_RISK_REPLY
        ELSE IF \E word \in {"hi", "hello", "hey"} : Contains(message_lower, word)
             THEN GREETING_REPLY
        ELSE IF emotion = Some("sadness") THEN SADNESS_REPLY
        ELSE IF emotion = Some("fear") \/ emotion = Some("anxiety") THEN FEAR_REPLY
        ELSE IF emotion = Some("anger") THEN ANGER_REPLY
        ELSE IF emotion = Some("joy") THEN JOY_REPLY
        ELSE IF risk_level = Some("MEDIUM") THEN MEDIUM_RISK_REPLY
        ELSE DEFAULT_REPLY

\* lines 99-120: the number of entries of the messages array sent to the backend
\* (system prompt, at most the last 6 history entries, the current message)
PromptLength(conversation_history) ==
    1 + (IF conversation_history = None THEN 0
         ELSE Min(6, Len(conversation_history[1]))) + 1

\* lines 122-135: what generate_response returns once the completion call ended.
\* completion is [kind |-> "raise"] or [kind |-> "content", content |-> Optional str]
\* (content None makes .strip() raise, which the except clause absorbs)
CompletionReply(completion, message, emotion, risk_level) ==
    IF completion.kind = "content" /\ completion.content # None
    THEN Strip(completion.content[1])
    ELSE generate_mock_response(message, emotion, risk_level)

-----------------------------------------------------------------------------
(* Inputs *)

\* the longest text is MaxFrags fragments long
MaxFrags == 2

\* pieces the input texts are made of: a greeting, whitespace, two high-risk
\* keywords (one capitalised), two distress patterns (one with a tab between its
\* words), a stress pattern that is also a sadness keyword and a negative word,
\* and a joy keyword that is also a positive word
Fragments ==
    << "hi", " ", "Suicide", "overdose", "feel\r\tnumb", "hate myself", "lonely",
       "happy", "stressed" >>

RECURSIVE Join(_)
\* the fragments numbered in S, concatenated in the order of Fragments
Join(S) ==
    IF S = {} THEN ""
    ELSE LET m == CHOOSE k \in S : \A j \in S : k <= j
         IN  Fragments[m] \o Join(S \ {m})

\* the texts made of at most n different fragments
TextsUpTo(n) ==
    {Join(S) : S \in {X \in SUBSET DOMAIN Fragments : Cardinality(X) <= n}}

Texts == TextsUpTo(MaxFrags)

\* the messages of generate_response calls and of chat requests (one fragment
\* shorter: they are combined with backend outcomes and write failures)
Messages == TextsUpTo(MaxFrags - 1)

EmotionLabels == {"joy", "sadness", "anger", "fear", "surprise", "disgust", "neutral"}

\* emotion arguments: none, each label, a label in capitals, an unknown label,
\* and the label anxiety that _generate_mock_response knows
EmotionArgs ==
    {None} \cup {Some(e) : e \in EmotionLabels \cup {"JOY", "bored", "anxiety"}}

\* sentiment arguments in 1/10000: none, and values around -0.6 and -0.3
SentimentArgs == {None} \cup {Some(v) : v \in {-10000, -6001, -6000, -3000, 0}}

RiskLevelArgs == {None} \cup {Some(l) : l \in {"LOW", "MEDIUM", "HIGH"}}

\* conversation histories: none, and one of seven turns
HistoryArgs ==
    {None,
     Some([k \in 1..7 |-> [role |-> IF k % 2 = 1 THEN "user" ELSE "assistant",
                           message |-> "turn"]])}

ApiKeys == {"", PLACEHOLDER_KEY, "sk-test"}

\* what the emotion pipeline does when called (scores in 1/100000)
EmotionBackendOutcomes ==
    {[kind |-> "raise"], [kind |-> "results", results |-> <<>>]}
    \cup {[kind |-> "results", results |-> <<[label |-> l, score |-> 95123]>>] :
            l \in EmotionLabels}

\* what the sentiment pipeline does when called
SentimentBackendOutcomes ==
    {[kind |-> "raise"], [kind |-> "results", results |-> <<>>]}
    \cup {[kind |-> "results", results |-> <<[label |-> l, score |-> sc]>>] :
            l \in {"POSITIVE", "NEGATIVE"}, sc \in {20015, 99912}}

\* what client.chat.completions.create does: it raises, or returns a completion
\* whose content is None, empty, blank or text
CompletionOutcomes ==
    {[kind |-> "raise"], [kind |-> "content", content |-> None]}
    \cup {[kind |-> "content", content |-> Some(c)] :
            c \in {"", " \r\n", " I'm here for you. "}}

-----------------------------------------------------------------------------
(* Direct calls of the ai_service functions *)

NoCall ==
    [fn |-> "none", pc |-> "done", text |-> "", emotion |-> None,
     sentiment |-> None, risk_level |-> None, history |-> None,
     result |-> None, events |-> <<>>]

ReadyCall(fn, text, emotion, sentiment, risk_level, history) ==
    [fn |-> fn, pc |-> "ready", text |-> text, emotion |-> emotion,
     sentiment |-> sentiment, risk_level |-> risk_level, history |-> history,
     result |-> None, events |-> <<>>]

ReadyCalls ==
    {ReadyCall("detect_risk", t, e, sv, None, None) :
        t \in Texts, e \in EmotionArgs, sv \in SentimentArgs}
    \cup {ReadyCall("classify_emotion", t, None, None, None, None) : t \in Texts}
    \cup {ReadyCall("analyze_sentiment", t, None, None, None, None) : t \in Texts}
    \cup {ReadyCall("generate_response", t, e, None, l, h) :
        t \in Messages, e \in EmotionArgs, l \in RiskLevelArgs, h \in HistoryArgs}
    \cup {ReadyCall("check_for_crisis", t, None, None, None, None) :
        t \in Texts \cup {"I'm Going to hurt myself"}}

Return(result, events) ==
    [call EXCEPT !.pc = "done", !.result = Some(result), !.events = events]

\* detect_risk(text, emotion, sentiment); the events of the call are base_score
\* and factors after each stage (none for the empty text)
CallDetectRisk ==
    /\ call.fn = "detect_risk" /\ call.pc = "ready"
    /\ call' = Return(detect_risk(call.text, call.emotion, call.sentiment),
                       IF EmptyText(call.text) THEN <<>>
                       ELSE RiskStages(call.text, call.emotion, call.sentiment))
    /\ UNCHANGED <<AI_AVAILABLE, api_key, emotion_classifier, sentiment_analyzer,
                   client, chat_logs, risk_scores, alerts, now, req>>

CallCheckForCrisis ==
    /\ call.fn = "check_for_crisis" /\ call.pc = "ready"
    /\ call' = Return(check_for_crisis(call.text), <<>>)
    /\ UNCHANGED <<AI_AVAILABLE, api_key, emotion_classifier, sentiment_analyzer,
                   client, chat_logs, risk_scores, alerts, now, req>>

CallClassifyEmotion ==
    /\ call.fn = "classify_emotion" /\ call.pc = "ready"
    /\ \E load_ok \in BOOLEAN, backend \in EmotionBackendOutcomes :
          LET r == classify_emotion(call.text, emotion_classifier, load_ok, backend)
          IN  /\ call' = Return(r.result, r.events)
              /\ emotion_classifier' = r.handle
    /\ UNCHANGED <<AI_AVAILABLE, api_key, sentiment_analyzer, client, chat_logs,
                   risk_scores, alerts, now, req>>

CallAnalyzeSentiment ==
    /\ call.fn = "analyze_sentiment" /\ call.pc = "ready"
    /\ \E load_ok \in BOOLEAN, backend \in SentimentBackendOutcomes :
          LET r == analyze_sentiment(call.text, sentiment_analyzer, load_ok, backend)
          IN  /\ call' = Return(r.result, r.events)
              /\ sentiment_analyzer' = r.handle
    /\ UNCHANGED <<AI_AVAILABLE, api_key, emotion_classifier, client, chat_logs,
                   risk_scores, alerts, now, req>>

\* generate_response, lines 85-123: get_client() sets the global; with the mock
\* client the call returns at once, otherwise it builds the messages and is
\* suspended in client.chat.completions.create
CallGenerateResponse ==
    /\ call.fn = "generate_response" /\ call.pc = "ready"
    /\ client' = get_client(client, api_key)
    /\ call' = IF client' = "mock"
               THEN Return(generate_mock_response(call.text, call.emotion,
                                                  call.risk_level), <<>>)
               ELSE [call EXCEPT !.pc = "create", !.events = <<"create">>]
    /\ UNCHANGED <<AI_AVAILABLE, api_key, emotion_classifier, sentiment_analyzer,
                   chat_logs, risk_scores, alerts, now, req>>

\* generate_response, lines 123-135: the completion call ends and the call
\* returns
CreateReturns ==
    /\ call.fn = "generate_response" /\ call.pc = "create"
    /\ \E completion \in CompletionOutcomes :
          call' = Return(CompletionReply(completion, call.text, call.emotion,
                                         call.risk_level), call.events)
    /\ UNCHANGED <<AI_AVAILABLE, api_key, emotion_classifier, sentiment_analyzer,
                   client, chat_logs, risk_scores, alerts, now, req>>

\* a fresh process (no handle initialised yet) about to make one direct call
InitFn ==
    /\ AI_AVAILABLE = TRUE
    /\ emotion_classifier = "None"
    /\ sentiment_analyzer = "None"
    /\ client = "None"
    /\ chat_logs = <<>>
    /\ risk_scores = <<>>
    /\ alerts = <<>>
    /\ now = 0
    /\ req = <<>>
    /\ call \in ReadyCalls
    /\ api_key \in (IF call.fn = "generate_response" THEN ApiKeys ELSE {""})

NextFn ==
    \/ CallDetectRisk
    \/ CallClassifyEmotion
    \/ CallAnalyzeSentiment
    \/ CallGenerateResponse
    \/ CreateReturns
    \/ CallCheckForCrisis

SpecFn == InitFn /\ [][NextFn]_vars

-----------------------------------------------------------------------------
(* backend/app/api/chat.py: send_message *)

\* the number of send_message requests of a behaviour, served one after another
MaxChats == 1

ChatIds == 1..MaxChats

Users == {"u1", "u2"}

\* a greeting (LOW), a stress indicator (MEDIUM or LOW), a high-risk keyword
ChatMessages == {"hi", "lonely", "Suicide"}

\* what the pipelines and the completion call do during a chat request
ChatEmotionOutcomes ==
    {[kind |-> "raise"]}
    \cup {[kind |-> "results", results |-> <<[label |-> "joy", score |-> 95123]>>]}

ChatSentimentOutcomes ==
    {[kind |-> "raise"],
     [kind |-> "results", results |-> <<[label |-> "NEGATIVE", score |-> 99912]>>]}

ChatCompletionOutcomes ==
    {[kind |-> "raise"]}
    \cup {[kind |-> "content", content |-> Some(c)] : c \in {"", " I'm here for you. "}}

IdleRequest ==
    [pc |-> "idle", user_id |-> "", message |-> "", timestamp |-> 0,
     ai_timestamp |-> 0, emotion |-> "", emotion_confidence |-> 0,
     sentiment_score |-> 0, sentiment_polarity |-> "",
     risk_level |-> "", risk_score |-> 0, risk_factors |-> <<>>,
     ai_response |-> None, response |-> None, error |-> None]

\* lines 30-41: the functions chat.py defines when the ai_service import fails
StubAnalysis ==
    [emotion |-> "neutral", emotion_confidence |-> 5000,
     sentiment_score |-> 0, sentiment_polarity |-> "neutral",
     risk_level |-> "LOW", risk_score |-> 10, risk_factors |-> <<>>]

\* lines 58-72 with the ai_service functions: steps 1 to 3 of the pipeline
Analysis(message, e, sn) ==
    LET risk_result == detect_risk(message, Some(e.result.emotion),
                                   Some(sn.result.score))
    IN  [emotion |-> e.result.emotion,
         emotion_confidence |-> e.result.confidence,
         sentiment_score |-> sn.result.score,
         sentiment_polarity |-> sn.result.polarity,
         risk_level |-> risk_result.level,
         risk_score |-> risk_result.score,
         risk_factors |-> risk_result.factors]

\* lines 85-94
UserLog(q) ==
    [user_id |-> q.user_id, message |-> q.message, role |-> "user",
     timestamp |-> q.timestamp, emotion |-> Some(q.emotion),
     emotion_confidence |-> Some(q.emotion_confidence),
     sentiment_score |-> Some(q.sentiment_score),
     sentiment_polarity |-> Some(q.sentiment_polarity)]

\* lines 98-107: built once the user log is stored, stamped at that time
AiLog(q) ==
    [user_id |-> q.user_id, message |-> q.ai_response[1], role |-> "ai",
     timestamp |-> q.ai_timestamp, emotion |-> None, emotion_confidence |-> None,
     sentiment_score |-> None, sentiment_polarity |-> None]

\* the risk record built from a result shared by the requests: it carries the
\* level, score and factors of the request that started last
RiskEntry_SharedResult(q) ==
    LET started == {r \in DOMAIN req : req[r].pc # "idle"}
        last    == CHOOSE r \in started :
                       \A k \in started : req[k].timestamp <= req[r].timestamp
        g       == req[last]
    IN  [user_id |-> q.user_id, level |-> g.risk_level, score |-> g.risk_score,
         timestamp |-> q.timestamp, factors |-> g.risk_factors,
         trigger_message |-> IF g.risk_level \in {"MEDIUM", "HIGH"}
                             THEN Some(q.message) ELSE None]

\* lines 111-118
RiskEntry(q) ==
    [user_id |-> q.user_id, level |-> q.risk_level, score |-> q.risk_score,
     timestamp |-> q.timestamp, factors |-> q.risk_factors,
     trigger_message |-> IF q.risk_level \in {"MEDIUM", "HIGH"}
                         THEN Some(q.message) ELSE None]

\* line 122, taken for MEDIUM as well
NeedsAlert_MediumToo(q) == q.risk_level \in {"MEDIUM", "HIGH"}

\* line 122
NeedsAlert(q) == q.risk_level = "HIGH"

\* lines 123-128 with the alert stamped when it is built, as the AI log is
NewAlert_StampedWhenBuilt(q) ==
    [user_id |-> q.user_id, risk_level |-> q.risk_level,
     trigger_message |-> q.message, created_at |-> now,
     resolved |-> FALSE, resolved_at |-> None, notes |-> None]

\* lines 123-128, with the defaults of AlertInDB
NewAlert(q) ==
    [user_id |-> q.user_id, risk_level |-> q.risk_level,
     trigger_message |-> q.message, created_at |-> q.timestamp,
     resolved |-> FALSE, resolved_at |-> None, notes |-> None]

\* lines 131-142
ChatResponse(q) ==
    [user_id |-> q.user_id, user_message |-> q.message,
     ai_response |-> q.ai_response[1], emotion |-> q.emotion,
     emotion_confidence |-> q.emotion_confidence,
     sentiment_score |-> q.sentiment_score,
     sentiment_polarity |-> q.sentiment_polarity,
     risk_level |-> q.risk_level, risk_score |-> q.risk_score,
     timestamp |-> q.timestamp]

\* lines 75-91: the request with the analysis a of its message and the client
\* c, waiting for its first insert, or for the completion when the client is a
\* real one
Replying(message, a, c) ==
    [IdleRequest EXCEPT
        !.pc = IF AI_AVAILABLE /\ c # "mock" THEN "generating" ELSE "insert_user_log",
        !.message = message, !.timestamp = now,
        !.emotion = a.emotion,
        !.emotion_confidence = a.emotion_confidence,
        !.sentiment_score = a.sentiment_score,
        !.sentiment_polarity = a.sentiment_polarity,
        !.risk_level = a.risk_level, !.risk_score = a.risk_score,
        !.risk_factors = a.risk_factors,
        !.ai_response =
            IF ~AI_AVAILABLE THEN Some(DEFAULT_REPLY)
            ELSE IF c = "mock"
            THEN Some(generate_mock_response(message, Some(a.emotion),
                                             Some(a.risk_level)))
            ELSE None]

\* lines 58-91 with the results e and sn of the two classifiers: the handles
\* they leave, the client, and the request of a user
Analysed(r, message, users, e, sn) ==
    /\ emotion_classifier' = IF AI_AVAILABLE THEN e.handle ELSE emotion_classifier
    /\ sentiment_analyzer' = IF AI_AVAILABLE THEN sn.handle ELSE sentiment_analyzer
    /\ client' = IF AI_AVAILABLE THEN get_client(client, api_key) ELSE client
    /\ \E user_id \in users :
          req' = [req EXCEPT ![r] =
                     [Replying(message,
                               IF AI_AVAILABLE THEN Analysis(message, e, sn)
                               ELSE StubAnalysis,
                               client') EXCEPT !.user_id = user_id]]

\* lines 45-82 up to the first suspension: the request is read, steps 1 to 3 run,
\* and generate_response either returns the mock reply at once or awaits the
\* completion call
StartRequest(r, messages, users) ==
    /\ req[r].pc = "idle"
    /\ \E message \in messages :
       \E e_load \in (IF AI_AVAILABLE /\ emotion_classifier = "None"
                      THEN BOOLEAN ELSE {TRUE}),
          s_load \in (IF AI_AVAILABLE /\ sentiment_analyzer = "None"
                      THEN BOOLEAN ELSE {TRUE}) :
       \E e_out \in (IF AI_AVAILABLE /\ get_classifier(emotion_classifier, e_load) = "pipeline"
                     THEN ChatEmotionOutcomes ELSE {[kind |-> "raise"]}),
          s_out \in (IF AI_AVAILABLE /\ get_analyzer(sentiment_analyzer, s_load) = "pipeline"
                     THEN ChatSentimentOutcomes ELSE {[kind |-> "raise"]}) :
          Analysed(r, message, users,
                   classify_emotion(message, emotion_classifier, e_load, e_out),
                   analyze_sentiment(message, sentiment_analyzer, s_load, s_out))
    /\ UNCHANGED <<AI_AVAILABLE, api_key, chat_logs, risk_scores, alerts, now, call>>

\* send_message(chat_message), one request after the other
SendMessage(r) ==
    /\ \A k \in 1..(r - 1) : req[k].pc \in {"returned", "failed"}
    /\ StartRequest(r, ChatMessages, Users)

\* llm_companion.py lines 122-135: the completion call ends in one of outcomes,
\* generate_response returns, and send_message goes on to its first insert
CompletionEnds(r, outcomes) ==
    /\ req[r].pc = "generating"
    /\ \E completion \in outcomes :
          req' = [req EXCEPT ![r].pc = "insert_user_log",
                             ![r].ai_response =
                                 Some(CompletionReply(completion, req[r].message,
                                                      Some(req[r].emotion),
                                                      Some(req[r].risk_level)))]
    /\ now' = now + 1
    /\ UNCHANGED <<AI_AVAILABLE, api_key, emotion_classifier, sentiment_analyzer,
                   client, chat_logs, risk_scores, alerts, call>>

CompletionReturns(r) == CompletionEnds(r, ChatCompletionOutcomes)

PendingWrites == {"insert_user_log", "insert_ai_log", "insert_risk", "insert_alert"}

\* the failing insert caught and ignored: the handler goes on and answers
InsertFails_Swallowed(r) ==
    /\ req[r].pc \in PendingWrites
    /\ req' = [req EXCEPT ![r].pc = "returned",
                          ![r].response = Some(ChatResponse(req[r]))]
    /\ now' = now + 1
    /\ UNCHANGED <<AI_AVAILABLE, api_key, emotion_classifier, sentiment_analyzer,
                   client, chat_logs, risk_scores, alerts, call>>

\* lines 95, 108, 119, 129: an awaited insert_one raises; nothing in send_message
\* catches it, so the request ends with the error of that write
InsertFails(r) ==
    /\ req[r].pc \in PendingWrites
    /\ req' = [req EXCEPT ![r].pc = "failed", ![r].error = Some(req[r].pc)]
    /\ now' = now + 1
    /\ UNCHANGED <<AI_AVAILABLE, api_key, emotion_classifier, sentiment_analyzer,
                   client, chat_logs, risk_scores, alerts, call>>

\* lines 95-107: the user log is stored; the handler resumes, reads the clock
\* for the AI log (line 102) and awaits the second insert
InsertUserLog(r) ==
    /\ req[r].pc = "insert_user_log"
    /\ chat_logs' = Append(chat_logs, UserLog(req[r]))
    /\ now' = now + 1
    /\ req' = [req EXCEPT ![r].pc = "insert_ai_log", ![r].ai_timestamp = now']
    /\ UNCHANGED <<AI_AVAILABLE, api_key, emotion_classifier, sentiment_analyzer,
                   client, risk_scores, alerts, call>>

\* line 108: the AI log, built and stamped when the first insert returned, is
\* stored
InsertAiLog(r) ==
    /\ req[r].pc = "insert_ai_log"
    /\ chat_logs' = Append(chat_logs, AiLog(req[r]))
    /\ req' = [req EXCEPT ![r].pc = "insert_risk"]
    /\ now' = now + 1
    /\ UNCHANGED <<AI_AVAILABLE, api_key, emotion_classifier, sentiment_analyzer,
                   client, risk_scores, alerts, call>>

\* lines 111-122 and, without an alert to write, lines 131-142
InsertRisk(r) ==
    /\ req[r].pc = "insert_risk"
    /\ risk_scores' = Append(risk_scores, RiskEntry(req[r]))
    /\ req' = [req EXCEPT ![r] =
                  IF NeedsAlert(req[r])
                  THEN [req[r] EXCEPT !.pc = "insert_alert"]
                  ELSE [req[r] EXCEPT !.pc = "returned",
                                      !.response = Some(ChatResponse(req[r]))]]
    /\ now' = now + 1
    /\ UNCHANGED <<AI_AVAILABLE, api_key, emotion_classifier, sentiment_analyzer,
                   client, chat_logs, alerts, call>>

\* lines 123-142
InsertAlert(r) ==
    /\ req[r].pc = "insert_alert"
    /\ alerts' = Append(alerts, NewAlert(req[r]))
    /\ req' = [req EXCEPT ![r].pc = "returned",
                          ![r].response = Some(ChatResponse(req[r]))]
    /\ now' = now + 1
    /\ UNCHANGED <<AI_AVAILABLE, api_key, emotion_classifier, sentiment_analyzer,
                   client, chat_logs, risk_scores, call>>

\* a started process: the import of ai_service succeeded or not, the API key is
\* set or not, no handle is initialised, the collections are empty
Init ==
    /\ AI_AVAILABLE \in BOOLEAN
    /\ api_key \in {"", "sk-test"}
    /\ emotion_classifier = "None"
    /\ sentiment_analyzer = "None"
    /\ client = "None"
    /\ chat_logs = <<>>
    /\ risk_scores = <<>>
    /\ alerts = <<>>
    /\ now = 0
    /\ req = [r \in ChatIds |-> IdleRequest]
    /\ call = NoCall

Next ==
    \E r \in ChatIds :
        \/ SendMessage(r)
        \/ CompletionReturns(r)
        \/ InsertUserLog(r)
        \/ InsertAiLog(r)
        \/ InsertRisk(r)
        \/ InsertAlert(r)
        \/ InsertFails(r)

Spec == Init /\ [][Next]_vars

-----------------------------------------------------------------------------
(* send_message: requests in flight at the same time.  The event loop runs  *)
(* one handler until it awaits (the completion call, each insert_one), then *)
(* any other handler may run.                                               *)
(* The inserts of these requests succeed.                                   *)

\* the number of requests in flight
MaxConcurrent == 2

ConcurrentIds == 1..MaxConcurrent

\* each request has its own user and message
ConcurrentUsers == <<"u1", "u2", "u3">>

ConcurrentMessages == <<"lonely", "Suicide", "hi">>

\* send_message(chat_message) of request r, whatever the other requests do
SendMessageConcurrently(r) ==
    StartRequest(r, {ConcurrentMessages[r]}, {ConcurrentUsers[r]})

\* the completion call of a request in flight fails (the connection is lost):
\* the reply is the fallback for the request's own emotion and risk level
CompletionFails(r) == CompletionEnds(r, {[kind |-> "raise"]})

\* both classifiers are in fallback mode and the API key is set, so that every
\* request awaits the completion call
InitConcurrent ==
    /\ AI_AVAILABLE = TRUE
    /\ api_key = "sk-test"
    /\ emotion_classifier = "fallback"
    /\ sentiment_analyzer = "fallback"
    /\ client = "None"
    /\ chat_logs = <<>>
    /\ risk_scores = <<>>
    /\ alerts = <<>>
    /\ now = 0
    /\ req = [r \in ConcurrentIds |-> IdleRequest]
    /\ call = NoCall

NextConcurrent ==
    \E r \in ConcurrentIds :
        \/ SendMessageConcurrently(r)
        \/ CompletionFails(r)
        \/ InsertUserLog(r)
        \/ InsertAiLog(r)
        \/ InsertRisk(r)
        \/ InsertAlert(r)

SpecConcurrent == InitConcurrent /\ [][NextConcurrent]_vars

-----------------------------------------------------------------------------
(* send_message: requests in flight at the same time whose inserts may fail. *)
(* No API key is set, so generate_response returns the mock reply without    *)
(* awaiting and the inserts are the only suspension points.                  *)

\* the number of requests in flight
MaxWriters == 2

WriterIds == 1..MaxWriters

\* the messages of the requests: a high-risk keyword (HIGH), a stress indicator
\* (not HIGH), a high-risk keyword
WriterMessages == <<"Suicide", "lonely", "Suicide">>

\* the users of the requests: two users, one of them with two requests
WriterUsers == <<"u1", "u2", "u1">>

\* send_message(chat_message) of request r, whatever the other requests do
SendMessageOfWriter(r) == StartRequest(r, {WriterMessages[r]}, {WriterUsers[r]})

InitWriters ==
    /\ AI_AVAILABLE = TRUE
    /\ api_key = ""
    /\ emotion_classifier = "fallback"
    /\ sentiment_analyzer = "fallback"
    /\ client = "None"
    /\ chat_logs = <<>>
    /\ risk_scores = <<>>
    /\ alerts = <<>>
    /\ now = 0
    /\ req = [r \in WriterIds |-> IdleRequest]
    /\ call = NoCall

NextWriters ==
    \E r \in WriterIds :
        \/ SendMessageOfWriter(r)
        \/ InsertUserLog(r)
        \/ InsertAiLog(r)
        \/ InsertRisk(r)
        \/ InsertAlert(r)
        \/ InsertFails(r)

SpecWriters == InitWriters /\ [][NextWriters]_vars

-----------------------------------------------------------------------------
(* backend/app/api/risk.py: get_risk_scores *)
(* In this specification time is counted in days.                          *)

\* the largest number of documents in the risk_scores collection
MaxScores == 7

\* what send_message keeps of a request for its risk record: the user, the
\* message and the risk result
StoredEntry(user_id, message, risk_result) ==
    [user_id |-> user_id, message |-> message, level |-> risk_result.level,
     score |-> risk_result.score, factors |-> risk_result.factors]

\* the entries of one user's requests (score 10: any message when the ai_service
\* import failed; 15 and 25: a stress indicator said with joy, the sentiment
\* positive or very negative) and one entry of another user (100)
StoredRiskEntries ==
    {StoredEntry("u1", "hi", [level |-> StubAnalysis.risk_level,
                              score |-> StubAnalysis.risk_score,
                              factors |-> StubAnalysis.risk_factors]),
     StoredEntry("u1", "lonely", detect_risk("lonely", Some("joy"), Some(9991))),
     StoredEntry("u1", "lonely", detect_risk("lonely", Some("joy"), Some(-10000))),
     StoredEntry("u2", "Suicide", detect_risk("Suicide", Some("sadness"), Some(0)))}

\* chat.py lines 111-118: the risk_scores document of such a request, stamped t
RiskDocument(e, t) ==
    RiskEntry([user_id |-> e.user_id, message |-> e.message, timestamp |-> t,
               risk_level |-> e.level, risk_score |-> e.score,
               risk_factors |-> e.factors])

\* insertion follows the timestamps, except that two requests that overlap may
\* insert in the other order: the last two documents are then swapped
StampOf(n, k, swapped) ==
    IF swapped /\ n >= 2 /\ k = n THEN n - 1
    ELSE IF swapped /\ n >= 2 /\ k = n - 1 THEN n
    ELSE k

\* a collection of n documents
RiskStore(es, swapped) ==
    [k \in DOMAIN es |-> RiskDocument(es[k], StampOf(Len(es), k, swapped))]

SeqSum(f, lo, hi) ==
    LET Sum[k \in (lo - 1)..hi] == IF k < lo THEN 0 ELSE Sum[k - 1] + f[k]
    IN  IF hi < lo THEN 0 ELSE Sum[hi]

\* lines 21-24: find(...).sort("timestamp", -1) over documents with distinct
\* timestamps
RECURSIVE SortNewestFirst(_)
SortNewestFirst(docs) ==
    IF docs = {} THEN <<>>
    ELSE LET d == CHOOSE x \in docs : \A y \in docs : y.timestamp <= x.timestamp
         IN  <<d>> \o SortNewestFirst(docs \ {d})

\* lines 21-34: the fetch, answered from the collection as it is when the
\* cursor is read; start_date is the value line 19 computed
FindRiskScores(user_id, start_date) ==
    LET docs == {risk_scores[i] : i \in {j \in DOMAIN risk_scores :
                    /\ risk_scores[j].user_id = user_id
                    /\ risk_scores[j].timestamp >= start_date}}
        sorted == SortNewestFirst(docs)
    IN  [k \in DOMAIN sorted |->
            [user_id |-> sorted[k].user_id, level |-> sorted[k].level,
             score |-> sorted[k].score, timestamp |-> sorted[k].timestamp,
             factors |-> sorted[k].factors]]

\* the trend computed over the five oldest and the next scores
Trend_OldestAsRecent(scores) ==
    LET n == Len(scores)
        sc == [k \in 1..n |-> scores[n + 1 - k].score]
    IN  IF n >= 5
        THEN LET recent5 == SeqSum(sc, 1, 5)
                 cnt     == Min(5, n - 5)
                 older   == SeqSum(sc, 6, Min(n, 10))
             IN  IF n > 5 /\ recent5 * cnt < (older - 5 * cnt) * 5 THEN "improving"
                 ELSE IF n > 5 /\ recent5 * cnt > (older + 5 * cnt) * 5 THEN "worsening"
                 ELSE "stable"
        ELSE "insufficient_data"

\* the sums recent5 of five integer scores from 0 to 100 for which, with
\* older = recent5 + 25 over five scores, the float older / 5 - 5 lies above the
\* float recent5 / 5 although the two quotients are 5 apart exactly.  (For
\* integer scores from 0 to 100 the float comparisons of lines 43 and 45 differ
\* from the exact ones in these cases only; none has a sum that is a multiple
\* of 5.)
LowerBandFloatTies ==
    {1, 2, 6, 7, 12, 17, 19, 24, 29, 34, 39, 58, 63, 68, 73, 78, 136, 141, 146,
     151, 156, 297, 302, 307, 312, 317}

\* lines 39-51: recent_avg = recent5 / 5 and older_avg = older / cnt are floats;
\* they are compared after multiplying out, except on the ties that the float
\* subtraction decides; with exactly 5 scores older_avg is recent_avg
Trend(scores) ==
    LET n == Len(scores)
        sc == [k \in 1..n |-> scores[k].score]
    IN  IF n >= 5
        THEN LET recent5 == SeqSum(sc, 1, 5)
                 cnt     == Min(5, n - 5)
                 older   == SeqSum(sc, 6, Min(n, 10))
                 float_below == /\ cnt = 5 /\ older = recent5 + 25
                                /\ recent5 \in LowerBandFloatTies
             IN  IF n > 5 /\ (recent5 * cnt < (older - 5 * cnt) * 5 \/ float_below)
                 THEN "improving"
                 ELSE IF n > 5 /\ recent5 * cnt > (older + 5 * cnt) * 5 THEN "worsening"
                 ELSE "stable"
        ELSE "insufficient_data"

\* lines 21-58: the history answered, from the fetch on
RiskHistory(user_id, start_date) ==
    LET scores == FindRiskScores(user_id, start_date)
    IN  [user_id |-> user_id, scores |-> scores,
         current_level |-> IF scores = <<>> THEN "LOW" ELSE scores[1].level,
         trend |-> Trend(scores)]

\* a get_risk_scores call: start_date is set when line 19 has run, fetched is
\* the number of documents the collection held when the fetch was answered
RiskQuery(user_id, days) ==
    [fn |-> "get_risk_scores", pc |-> "ready", user_id |-> user_id, days |-> days,
     start_date |-> None, fetched |-> 0, result |-> None, events |-> <<>>]

\* get_risk_scores(user_id, days) up to its await, lines 14-27: the clock is
\* read, the cursor is made and the handler is suspended at the fetch
CallGetRiskScores ==
    /\ call.fn = "get_risk_scores" /\ call.pc = "ready"
    /\ call' = [call EXCEPT !.pc = "find", !.start_date = Some(now - call.days)]
    /\ UNCHANGED <<AI_AVAILABLE, api_key, emotion_classifier, sentiment_analyzer,
                   client, chat_logs, risk_scores, alerts, now, req>>

\* lines 27-58: the fetch is answered and the handler runs to its end
FetchRiskScores ==
    /\ call.fn = "get_risk_scores" /\ call.pc = "find"
    /\ call' = [Return(RiskHistory(call.user_id, call.start_date[1]), <<>>)
                   EXCEPT !.fetched = Len(risk_scores)]
    /\ UNCHANGED <<AI_AVAILABLE, api_key, emotion_classifier, sentiment_analyzer,
                   client, chat_logs, risk_scores, alerts, now, req>>

\* chat.py lines 111-119: a send_message request of entry e, started at time
\* t, that is suspended at risk_scores.insert_one
AwaitingInsertRisk(e, t) ==
    [IdleRequest EXCEPT !.pc = "insert_risk", !.user_id = e.user_id,
                        !.message = e.message, !.timestamp = t,
                        !.ai_timestamp = t, !.emotion = "joy",
                        !.emotion_confidence = 9000,
                        !.sentiment_score = -10000,
                        !.sentiment_polarity = "negative",
                        !.risk_level = e.level, !.risk_score = e.score,
                        !.risk_factors = e.factors,
                        !.ai_response = Some(generate_mock_response(e.message, Some("joy"),
                                                                   Some(e.level)))]

\* the collection holds up to MaxScores documents written over the last days,
\* and a send_message of the user, in flight since day 0, is suspended at its
\* risk_scores.insert_one; the query asks for the default 30 days or for the
\* last 3
InitRisk ==
    /\ AI_AVAILABLE = TRUE
    /\ api_key = ""
    /\ emotion_classifier = "None"
    /\ sentiment_analyzer = "None"
    /\ client = "None"
    /\ chat_logs = <<>>
    /\ alerts = <<>>
    /\ req = <<AwaitingInsertRisk(
                  StoredEntry("u1", "lonely",
                              detect_risk("lonely", Some("joy"), Some(-10000))), 0)>>
    /\ \E n \in 0..MaxScores, swapped \in BOOLEAN :
          \E es \in [1..n -> StoredRiskEntries] :
             risk_scores = RiskStore(es, swapped)
    /\ now = Len(risk_scores) + 1
    /\ call \in {RiskQuery("u1", days) : days \in {30, 3}}

NextRisk == CallGetRiskScores \/ FetchRiskScores \/ InsertRisk(1)

SpecRisk == InitRisk /\ [][NextRisk]_vars

-----------------------------------------------------------------------------
(* get_classifier, get_analyzer, get_client called from several threads *)
(* Each getter is "if global is None: global = <construct>; return global" *)
(* without a lock: a thread can be preempted between the test, the         *)
(* construction and the store.                                             *)

\* the number of threads that call a getter
MaxThreads == 2

Threads == 1..MaxThreads

Getters == {"get_classifier", "get_analyzer", "get_client"}

\* the global a getter reads and sets
HandleOf(fn) ==
    CASE fn = "get_classifier" -> emotion_classifier
      [] fn = "get_analyzer"   -> sentiment_analyzer
      [] fn = "get_client"     -> client

\* a thread about to call fn: val is the value it constructed, events what it did
ThreadCall(fn) ==
    [fn |-> fn, pc |-> "test", val |-> "None", events |-> <<>>, result |-> None]

\* "if _emotion_classifier is None:" (emotion_classifier.py:17,
\* sentiment_analyzer.py:16, llm_companion.py:19)
TestHandle(t) ==
    /\ req[t].pc = "test"
    /\ req' = [req EXCEPT ![t].pc =
                  IF HandleOf(req[t].fn) = "None" THEN "construct" ELSE "return"]
    /\ UNCHANGED <<AI_AVAILABLE, api_key, emotion_classifier, sentiment_analyzer,
                   client, chat_logs, risk_scores, alerts, now, call>>

\* the right-hand side of the assignment: pipeline(...) constructs the model or
\* raises (the except branch then stores "fallback"); AsyncOpenAI(...) is
\* constructed when the key is valid, else the value is "mock"
ConstructHandle(t) ==
    /\ req[t].pc = "construct"
    /\ \E load_ok \in (IF req[t].fn = "get_client" THEN {TRUE} ELSE BOOLEAN) :
          LET v == IF req[t].fn = "get_client" THEN get_client("None", api_key)
                   ELSE IF req[t].fn = "get_classifier"
                        THEN get_classifier("None", load_ok)
                        ELSE get_analyzer("None", load_ok)
          IN  req' = [req EXCEPT ![t].pc = "store", ![t].val = v,
                                 ![t].events = IF v = "mock" THEN @
                                               ELSE Append(@, "construct")]
    /\ UNCHANGED <<AI_AVAILABLE, api_key, emotion_classifier, sentiment_analyzer,
                   client, chat_logs, risk_scores, alerts, now, call>>

\* the store into the global
StoreHandle(t) ==
    /\ req[t].pc = "store"
    /\ emotion_classifier' = IF req[t].fn = "get_classifier" THEN req[t].val
                             ELSE emotion_classifier
    /\ sentiment_analyzer' = IF req[t].fn = "get_analyzer" THEN req[t].val
                             ELSE sentiment_analyzer
    /\ client' = IF req[t].fn = "get_client" THEN req[t].val ELSE client
    /\ req' = [req EXCEPT ![t].pc = "return", ![t].events = Append(@, "store")]
    /\ UNCHANGED <<AI_AVAILABLE, api_key, chat_logs, risk_scores, alerts, now, call>>

\* "return _emotion_classifier": the global is read again
ReturnHandle(t) ==
    /\ req[t].pc = "return"
    /\ req' = [req EXCEPT ![t].pc = "done", ![t].result = Some(HandleOf(req[t].fn))]
    /\ UNCHANGED <<AI_AVAILABLE, api_key, emotion_classifier, sentiment_analyzer,
                   client, chat_logs, risk_scores, alerts, now, call>>

\* a fresh process; each thread makes the first call of some getter
InitThreads ==
    /\ AI_AVAILABLE = TRUE
    /\ api_key \in {"", "sk-test"}
    /\ emotion_classifier = "None"
    /\ sentiment_analyzer = "None"
    /\ client = "None"
    /\ chat_logs = <<>>
    /\ risk_scores = <<>>
    /\ alerts = <<>>
    /\ now = 0
    /\ req \in [Threads -> {ThreadCall(fn) : fn \in Getters}]
    /\ call = NoCall

NextThreads ==
    \E t \in Threads :
        \/ TestHandle(t)
        \/ ConstructHandle(t)
        \/ StoreHandle(t)
        \/ ReturnHandle(t)

SpecThreads == InitThreads /\ [][NextThreads]_vars

-----------------------------------------------------------------------------
(* A process making several ai_service calls one after another *)

\* the number of calls of a behaviour
MaxCalls == 3

\* a text with a fallback keyword, a blank text
SeqTexts == {"lonely", " "}

\* a completed call: the handle before and after it, OPENAI_API_KEY when it
\* returned (key), what the backend did or would have done (backend), the result
\* and the backend events
CallRecord(fn, text, before, backend, r) ==
    [fn |-> fn, text |-> text, before |-> before, after |-> r.handle,
     key |-> api_key, backend |-> backend.kind, result |-> r.result,
     events |-> r.events]

SeqClassifyEmotion ==
    /\ Len(req) < MaxCalls /\ call.pc = "done"
    /\ \E text \in SeqTexts :
       \E load_ok \in (IF emotion_classifier = "None" THEN BOOLEAN ELSE {TRUE}) :
       \E backend \in (IF get_classifier(emotion_classifier, load_ok) = "pipeline"
                       THEN ChatEmotionOutcomes ELSE {[kind |-> "raise"]}) :
          LET r == classify_emotion(text, emotion_classifier, load_ok, backend)
          IN  /\ emotion_classifier' = r.handle
              /\ req' = Append(req, CallRecord("classify_emotion", text,
                                               emotion_classifier, backend, r))
    /\ UNCHANGED <<AI_AVAILABLE, api_key, sentiment_analyzer, client, chat_logs,
                   risk_scores, alerts, now, call>>

SeqAnalyzeSentiment ==
    /\ Len(req) < MaxCalls /\ call.pc = "done"
    /\ \E text \in SeqTexts :
       \E load_ok \in (IF sentiment_analyzer = "None" THEN BOOLEAN ELSE {TRUE}) :
       \E backend \in (IF get_analyzer(sentiment_analyzer, load_ok) = "pipeline"
                       THEN ChatSentimentOutcomes ELSE {[kind |-> "raise"]}) :
          LET r == analyze_sentiment(text, sentiment_analyzer, load_ok, backend)
          IN  /\ sentiment_analyzer' = r.handle
              /\ req' = Append(req, CallRecord("analyze_sentiment", text,
                                               sentiment_analyzer, backend, r))
    /\ UNCHANGED <<AI_AVAILABLE, api_key, emotion_classifier, client, chat_logs,
                   risk_scores, alerts, now, call>>

\* the generate_response call suspended in its completion request; before is
\* the global it found
AwaitingCreate(message, before) ==
    [fn |-> "generate_response", pc |-> "create", text |-> message,
     before |-> before, events |-> <<"create">>]

\* generate_response, lines 85-123: with the mock client the call is complete,
\* otherwise it is suspended in the completion request (call) and the
\* environment may change before it returns
SeqGenerateResponse ==
    /\ Len(req) < MaxCalls /\ call.pc = "done"
    /\ client' = get_client(client, api_key)
    /\ IF client' = "mock"
       THEN /\ req' = Append(req,
                   CallRecord("generate_response", "lonely", client,
                              [kind |-> "raise"],
                              [result |-> generate_mock_response("lonely", None, None),
                               handle |-> client', events |-> <<>>]))
            /\ UNCHANGED call
       ELSE /\ call' = AwaitingCreate("lonely", client)
            /\ UNCHANGED req
    /\ UNCHANGED <<AI_AVAILABLE, api_key, emotion_classifier, sentiment_analyzer,
                   chat_logs, risk_scores, alerts, now>>

\* generate_response, lines 123-135: the completion request ends and the call
\* is complete
SeqCreateReturns ==
    /\ call.pc = "create"
    /\ \E completion \in ChatCompletionOutcomes :
          req' = Append(req,
                    CallRecord("generate_response", call.text, call.before,
                               completion,
                               [result |-> CompletionReply(completion, call.text,
                                                           None, None),
                                handle |-> client, events |-> call.events]))
    /\ call' = NoCall
    /\ UNCHANGED <<AI_AVAILABLE, api_key, emotion_classifier, sentiment_analyzer,
                   client, chat_logs, risk_scores, alerts, now>>

\* the environment variable OPENAI_API_KEY is set or unset while the process runs
SetApiKey ==
    /\ \E key \in {"", "sk-test"} : key # api_key /\ api_key' = key
    /\ UNCHANGED <<AI_AVAILABLE, emotion_classifier, sentiment_analyzer, client,
                   chat_logs, risk_scores, alerts, now, req, call>>

InitSeq ==
    /\ AI_AVAILABLE = TRUE
    /\ api_key \in {"", "sk-test"}
    /\ emotion_classifier = "None"
    /\ sentiment_analyzer = "None"
    /\ client = "None"
    /\ chat_logs = <<>>
    /\ risk_scores = <<>>
    /\ alerts = <<>>
    /\ now = 0
    /\ req = <<>>
    /\ call = NoCall

NextSeq ==
    \/ SeqClassifyEmotion
    \/ SeqAnalyzeSentiment
    \/ SeqGenerateResponse
    \/ SeqCreateReturns
    \/ SetApiKey

SpecSeq == InitSeq /\ [][NextSeq]_vars

-----------------------------------------------------------------------------
(* backend/app/api/alerts.py: resolve_alert, unresolve_alert *)
(* An alert's _id is its position in the alerts collection.  The alerts are *)
(* stored by send_message requests with a high-risk message (req is the     *)
(* table of these requests), each stamped with the time its request read    *)
(* at its start.  call is the table of the resolve and unresolve calls, in  *)
(* the order they were made.  A call builds its update, reading the clock   *)
(* for resolved_at, and is suspended at its await of update_one; other      *)
(* handlers run until the database has applied the update and the call      *)
(* goes on to its answer.                                                   *)

\* the number of resolve and unresolve operations of a behaviour
MaxOps == 2

\* the number of requests that store an alert
MaxAlerts == 2

AlertSenders == 1..MaxAlerts

\* the users of the requests: two users, one of them with two requests
AlertUsers == <<"u1", "u2", "u1">>

\* lines 92-101 and 121-129: a call suspended at its await of update_one, with
\* the _id of the filter and the resolved_at and notes of the $set it has built
AwaitingUpdate(op, alert_id, resolved_at, notes) ==
    [op |-> op, pc |-> "update_one", alert_id |-> alert_id,
     resolved_at |-> resolved_at, notes |-> notes,
     result |-> None, target |-> 0, status |-> 0, at |-> None,
     reply_resolved_at |-> None]

\* lines 91, 102-103 and 120, 131-132: ObjectId(alert_id) raises on a malformed
\* id before anything is read or sent, and the call answers 400
InvalidId(op) ==
    [op |-> op, pc |-> "done", alert_id |-> 0,
     resolved_at |-> None, notes |-> None,
     result |-> None, target |-> 0, status |-> 400, at |-> None,
     reply_resolved_at |-> None]

\* lines 102-112 and 131-139: the call after its await.  result is None when
\* update_one raised (the bare except answers 400) and else its matched_count
\* (0 answers 404); target is the alert matched (0: none), at the time the
\* update was applied, and the answer of a resolve carries the time read at
\* line 111
AfterUpdate(o, result, target) ==
    LET status == IF result = None THEN 400
                  ELSE IF result[1] = 0 THEN 404 ELSE 200
    IN  [o EXCEPT !.pc = "done", !.result = result, !.target = target,
                  !.status = status,
                  !.at = IF status = 200 THEN Some(now) ELSE None,
                  !.reply_resolved_at =
                      IF status = 200 /\ o.op = "resolve" THEN Some(now + 1)
                      ELSE None]

\* send_message(chat_message) with a high-risk message; its inserts into
\* chat_logs, risk_scores and alerts follow one by one (InsertUserLog to
\* InsertAlert).  The high-risk messages are sent one after the other (request
\* r is made when the requests before it have ended); the resolve and unresolve
\* calls run between and during them
RaiseAlert(r) ==
    /\ \A k \in 1..(r - 1) : req[k].pc \in {"returned", "failed"}
    /\ StartRequest(r, {"Suicide"}, {AlertUsers[r]})

\* the update of unresolve_alert that leaves resolved_at as it is
Unresolved_KeepsResolvedAt(alert) == [alert EXCEPT !.resolved = FALSE]

\* the $set of resolve_alert that also stamps created_at
Resolved_Restamped(alert, resolved_at, notes) ==
    [alert EXCEPT !.resolved = TRUE, !.resolved_at = resolved_at, !.notes = notes,
                  !.created_at = resolved_at[1]]

\* lines 95-99: the $set of resolve_alert applied to a document; resolved_at is
\* the time the call read when it built the update
Resolved(alert, resolved_at, notes) ==
    [alert EXCEPT !.resolved = TRUE, !.resolved_at = resolved_at, !.notes = notes]

\* lines 124-127: the $set of unresolve_alert applied to a document
Unresolved(alert) == [alert EXCEPT !.resolved = FALSE, !.resolved_at = None]

\* resolve_alert(alert_id, resolve_data) up to its await: lines 86-101
ResolveAlert ==
    /\ Len(call) < MaxOps
    /\ \E well_formed \in BOOLEAN, alert_id \in 1..MaxAlerts,
          notes \in {None, Some("called the family")} :
          call' = Append(call, IF well_formed
                               THEN AwaitingUpdate("resolve", alert_id,
                                                   Some(now), notes)
                               ELSE InvalidId("resolve"))
    /\ UNCHANGED <<AI_AVAILABLE, api_key, emotion_classifier, sentiment_analyzer,
                   client, chat_logs, risk_scores, alerts, now, req>>

\* unresolve_alert(alert_id) up to its await: lines 115-129
UnresolveAlert ==
    /\ Len(call) < MaxOps
    /\ \E well_formed \in BOOLEAN, alert_id \in 1..MaxAlerts :
          call' = Append(call, IF well_formed
                               THEN AwaitingUpdate("unresolve", alert_id,
                                                   None, None)
                               ELSE InvalidId("unresolve"))
    /\ UNCHANGED <<AI_AVAILABLE, api_key, emotion_classifier, sentiment_analyzer,
                   client, chat_logs, risk_scores, alerts, now, req>>

\* the awaited update_one of call k ends and the call goes on to its end
\* (lines 102-112 and 130-139): update_one raises on an error of the database
\* and nothing is written, or it completes, with matched_count 0 when the
\* filter matches no document and else with the $set built before the await
\* applied to the document
UpdateOne(k) ==
    /\ k \in DOMAIN call
    /\ call[k].pc = "update_one"
    /\ \E raises \in BOOLEAN :
          LET o == call[k]
          IN  IF raises
              THEN /\ call' = [call EXCEPT ![k] = AfterUpdate(o, None, 0)]
                   /\ UNCHANGED alerts
              ELSE IF o.alert_id \notin DOMAIN alerts
              THEN /\ call' = [call EXCEPT ![k] = AfterUpdate(o, Some(0), 0)]
                   /\ UNCHANGED alerts
              ELSE /\ call' = [call EXCEPT ![k] = AfterUpdate(o, Some(1), o.alert_id)]
                   /\ alerts' = [alerts EXCEPT ![o.alert_id] =
                                    IF o.op = "resolve"
                                    THEN Resolved(@, o.resolved_at, o.notes)
                                    ELSE Unresolved(@)]
    /\ now' = now + 1
    /\ UNCHANGED <<AI_AVAILABLE, api_key, emotion_classifier, sentiment_analyzer,
                   client, chat_logs, risk_scores, req>>

\* a process whose model loads have failed and that has no API key: the
\* analysis of a message is the fallback one and the reply the mock one
InitAlerts ==
    /\ AI_AVAILABLE = TRUE
    /\ api_key = ""
    /\ emotion_classifier = "fallback"
    /\ sentiment_analyzer = "fallback"
    /\ client = "None"
    /\ chat_logs = <<>>
    /\ risk_scores = <<>>
    /\ alerts = <<>>
    /\ now = 0
    /\ req = [r \in AlertSenders |-> IdleRequest]
    /\ call = <<>>

NextAlerts ==
    \/ \E r \in AlertSenders :
          \/ RaiseAlert(r)
          \/ InsertUserLog(r)
          \/ InsertAiLog(r)
          \/ InsertRisk(r)
          \/ InsertAlert(r)
    \/ ResolveAlert
    \/ UnresolveAlert
    \/ \E k \in 1..MaxOps : UpdateOne(k)

SpecAlerts == InitAlerts /\ [][NextAlerts]_vars

-----------------------------------------------------------------------------
(* The analysis pipeline of send_message (chat.py lines 58-72) on ai_service  *)
(* processes whose model loads fail: both classifiers are in fallback mode.   *)

PipelineWords ==
    {"I'm so happy today, everything is great!", "so glad", "Hope", "hopeless",
     "unhappy", "lonely", "feel\r\tnumb", "hi", "Suicide", "thanks", "good"}

\* one word, or two of them separated by a space
PipelineTexts ==
    PipelineWords \cup {a \o " " \o b : a \in PipelineWords, b \in PipelineWords}

PipelineCall(text) ==
    [fn |-> "pipeline", pc |-> "emotion", text |-> text,
     emotion_result |-> None, sentiment_result |-> None, result |-> None]

\* lines 58-60: Step 1
PipelineEmotion ==
    /\ call.fn = "pipeline" /\ call.pc = "emotion"
    /\ LET r == classify_emotion(call.text, emotion_classifier, FALSE,
                                 [kind |-> "raise"])
       IN  /\ emotion_classifier' = r.handle
           /\ call' = [call EXCEPT !.pc = "sentiment",
                                   !.emotion_result = Some(r.result)]
    /\ UNCHANGED <<AI_AVAILABLE, api_key, sentiment_analyzer, client, chat_logs,
                   risk_scores, alerts, now, req>>

\* lines 63-65: Step 2
PipelineSentiment ==
    /\ call.fn = "pipeline" /\ call.pc = "sentiment"
    /\ LET r == analyze_sentiment(call.text, sentiment_analyzer, FALSE,
                                  [kind |-> "raise"])
       IN  /\ sentiment_analyzer' = r.handle
           /\ call' = [call EXCEPT !.pc = "risk",
                                   !.sentiment_result = Some(r.result)]
    /\ UNCHANGED <<AI_AVAILABLE, api_key, emotion_classifier, client, chat_logs,
                   risk_scores, alerts, now, req>>

\* lines 68-72: Step 3
PipelineRisk ==
    /\ call.fn = "pipeline" /\ call.pc = "risk"
    /\ call' = [call EXCEPT
                  !.pc = "done",
                  !.result = Some(Analysis(call.text,
                                           [result |-> call.emotion_result[1]],
                                           [result |-> call.sentiment_result[1]]))]
    /\ UNCHANGED <<AI_AVAILABLE, api_key, emotion_classifier, sentiment_analyzer,
                   client, chat_logs, risk_scores, alerts, now, req>>

\* the globals are None (first call of the process) or already "fallback"
InitPipeline ==
    /\ AI_AVAILABLE = TRUE
    /\ api_key = ""
    /\ emotion_classifier \in {"None", "fallback"}
    /\ sentiment_analyzer \in {"None", "fallback"}
    /\ client = "None"
    /\ chat_logs = <<>>
    /\ risk_scores = <<>>
    /\ alerts = <<>>
    /\ now = 0
    /\ req = <<>>
    /\ call \in {PipelineCall(t) : t \in PipelineTexts}

NextPipeline ==
    \/ PipelineEmotion
    \/ PipelineSentiment
    \/ PipelineRisk

SpecPipeline == InitPipeline /\ [][NextPipeline]_vars

-----------------------------------------------------------------------------
(* backend/app/api/chat.py: get_chat_history *)

\* the number of documents in chat_logs
MaxLogs == 3

\* timestamps as stored (BSON keeps milliseconds, so two logs may share one);
\* overlapping requests insert in any order of their timestamps
LogStamps == 1..3

LogNames == <<"first", "second", "third", "fourth", "fifth">>

\* the k-th document inserted: a user log or the AI log that follows it
ChatLogDocument(k, user_id, t) ==
    LET q == [user_id |-> user_id, message |-> LogNames[k], timestamp |-> t,
              ai_timestamp |-> t,
              emotion |-> "neutral", emotion_confidence |-> 5000,
              sentiment_score |-> 0, sentiment_polarity |-> "neutral",
              ai_response |-> Some(LogNames[k])]
    IN  IF k % 2 = 1 THEN UserLog(q) ELSE AiLog(q)

\* lines 150-152: find({"user_id": user_id}).sort("timestamp", -1): the orders
\* the cursor can deliver, documents of one timestamp in any order
NewestFirstOrders(user_id) ==
    LET found == {i \in DOMAIN chat_logs : chat_logs[i].user_id = user_id}
        m     == Cardinality(found)
    IN  {o \in [1..m -> found] :
            /\ \A i, j \in 1..m : i # j => o[i] # o[j]
            /\ \A i, j \in 1..m :
                  i < j => chat_logs[o[i]].timestamp >= chat_logs[o[j]].timestamp}

\* cursor.limit(limit): 0 is no limit, a negative limit counts as its absolute
\* value (one batch)
CursorLimit(docs, limit) ==
    IF limit = 0 THEN docs ELSE SubSeq(docs, 1, Min(Abs(limit), Len(docs)))

\* lines 170-174
ConversationHistory(user_id, messages) ==
    [user_id |-> user_id, messages |-> messages, total_count |-> Len(messages)]

\* get_chat_history(user_id, limit), the cursor delivering in order o
get_chat_history(user_id, limit, o) ==
    LET cursor   == CursorLimit([k \in DOMAIN o |-> chat_logs[o[k]]], limit)
        messages == [k \in DOMAIN cursor |->
                        [user_id |-> cursor[k].user_id,
                         message |-> cursor[k].message,
                         role |-> cursor[k].role,
                         timestamp |-> cursor[k].timestamp,
                         emotion |-> cursor[k].emotion,
                         emotion_confidence |-> cursor[k].emotion_confidence,
                         sentiment_score |-> cursor[k].sentiment_score,
                         sentiment_polarity |-> cursor[k].sentiment_polarity]]
        reversed == [k \in DOMAIN messages |-> messages[Len(messages) + 1 - k]]
    IN  ConversationHistory(user_id, reversed)

HistoryQuery(user_id, limit) ==
    [fn |-> "get_chat_history", pc |-> "ready", user_id |-> user_id,
     limit |-> limit, result |-> None, events |-> <<>>]

CallGetChatHistory ==
    /\ call.fn = "get_chat_history" /\ call.pc = "ready"
    /\ \E o \in NewestFirstOrders(call.user_id) :
          call' = Return(get_chat_history(call.user_id, call.limit, o), <<>>)
    /\ UNCHANGED <<AI_AVAILABLE, api_key, emotion_classifier, sentiment_analyzer,
                   client, chat_logs, risk_scores, alerts, now, req>>

\* the limit is any integer of the query string: the default 50, small ones, 0
\* and a negative one
HistoryLimits == {50, 2, 1, 0, -1}

InitHistory ==
    /\ AI_AVAILABLE = TRUE
    /\ api_key = ""
    /\ emotion_classifier = "None"
    /\ sentiment_analyzer = "None"
    /\ client = "None"
    /\ risk_scores = <<>>
    /\ alerts = <<>>
    /\ req = <<>>
    /\ \E n \in 0..MaxLogs :
          \E us \in [1..n -> Users], ts \in [1..n -> LogStamps] :
             chat_logs = [k \in 1..n |-> ChatLogDocument(k, us[k], ts[k])]
    /\ now = 4
    /\ call \in {HistoryQuery("u1", limit) : limit \in HistoryLimits}

NextHistory == CallGetChatHistory

SpecHistory == InitHistory /\ [][NextHistory]_vars

-----------------------------------------------------------------------------
(* backend/app/api/mood.py: submit_stress_questionnaire *)
(* In this specification req is the mood_logs collection, written by both   *)
(* POST /mood and POST /mood/questionnaire, and call is the questionnaire   *)
(* call, which also keeps the log_mood calls made so far.                   *)

MaxMoodLogs == 1

\* MoodLogCreate: mood_score and stress_score are validated ge=1, le=10 before
\* the handler; the ends of the range and both kinds of notes
MoodLogCreates ==
    { [user_id |-> "u1", mood_score |-> 1, stress_score |-> 10, notes |-> None],
      [user_id |-> "u1", mood_score |-> 10, stress_score |-> 1, notes |-> Some("tired")] }

\* log_mood, lines 19-26
LoggedEntry(mood_data) ==
    [user_id |-> mood_data.user_id, mood_score |-> mood_data.mood_score,
     stress_score |-> mood_data.stress_score, notes |-> mood_data.notes,
     date |-> now, created_at |-> now]

\* log_mood, lines 30-38
MoodLogResponse(id, entry) == [status |-> 200, id |-> id] @@ entry

\* log_mood(mood_data) up to its await, lines 14-28: the entry carries the
\* caller's scores and notes and the time read now, and the handler is
\* suspended at insert_one
LogMood ==
    /\ Len(call.logged) < MaxMoodLogs
    /\ \E mood_data \in MoodLogCreates :
          call' = [call EXCEPT !.logged =
                      Append(@, [pc |-> "insert_one", entry |-> LoggedEntry(mood_data),
                                 response |-> None])]
    /\ UNCHANGED <<AI_AVAILABLE, api_key, emotion_classifier, sentiment_analyzer,
                   client, chat_logs, risk_scores, alerts, now, req>>

\* lines 28-38: the insert_one of log_mood call k ends; the entry built before
\* the await is stored after the documents stored meanwhile and answered with
\* its id, or the insert raises (status 500, nothing stored)
InsertMoodLog(k) ==
    /\ k \in DOMAIN call.logged
    /\ call.logged[k].pc = "insert_one"
    /\ \E insert_ok \in BOOLEAN :
          LET entry == call.logged[k].entry
          IN  IF insert_ok
              THEN /\ req' = Append(req, entry)
                   /\ call' = [call EXCEPT !.logged[k] =
                                   [pc |-> "done", entry |-> entry,
                                    response |-> Some(MoodLogResponse(Len(req) + 1,
                                                                      entry))]]
              ELSE /\ call' = [call EXCEPT !.logged[k] =
                                   [pc |-> "done", entry |-> entry,
                                    response |-> Some([status |-> 500])]]
                   /\ UNCHANGED req
    /\ now' = now + 1
    /\ UNCHANGED <<AI_AVAILABLE, api_key, emotion_classifier, sentiment_analyzer,
                   client, chat_logs, risk_scores, alerts>>

\* StressQuestionnaire: each rating is validated ge=1, le=5 before the handler
Ratings == 1..5

Questionnaires ==
    [user_id : {"u1"}, sleep_quality : Ratings, energy_level : Ratings,
     social_connection : Ratings, anxiety_level : Ratings, concentration : Ratings,
     physical_symptoms : {None, Some(""), Some("headache")}]

\* lines 91-97
StressFactors(questionnaire) ==
    << 5 - questionnaire.sleep_quality, 5 - questionnaire.energy_level,
       5 - questionnaire.social_connection, questionnaire.anxiety_level,
       5 - questionnaire.concentration >>

\* the stress score without the lower clamp
StressScore_NoLowerClamp(questionnaire) ==
    LET stress_factors == StressFactors(questionnaire)
    IN  Min(10, (2 * SeqSum(stress_factors, 1, 5)) \div Len(stress_factors))

\* lines 100-101: avg_stress = sum / len; int(avg_stress * 2) truncates a
\* non-negative number, which is the floor of 2 * sum / 5
StressScore(questionnaire) ==
    LET stress_factors == StressFactors(questionnaire)
    IN  Min(10, Max(1, (2 * SeqSum(stress_factors, 1, 5)) \div Len(stress_factors)))

\* line 104
MoodScore(stress_score) == Max(1, 11 - stress_score)

\* MoodLogInDB: mood_score and stress_score are validated ge=1, le=10
ValidMoodLog(entry) ==
    /\ entry.mood_score >= 1 /\ entry.mood_score <= 10
    /\ entry.stress_score >= 1 /\ entry.stress_score <= 10

\* lines 106-113
MoodEntry(questionnaire) ==
    LET stress_score == StressScore(questionnaire)
        symptoms     == questionnaire.physical_symptoms
    IN  [user_id |-> questionnaire.user_id,
         mood_score |-> MoodScore(stress_score),
         stress_score |-> stress_score,
         notes |-> Some("From questionnaire. Physical symptoms: "
                           \o (IF symptoms = None \/ symptoms = Some("")
                               THEN "None" ELSE symptoms[1])),
         date |-> now, created_at |-> now]

QuestionnaireCall(questionnaire) ==
    [fn |-> "submit_stress_questionnaire", pc |-> "ready",
     questionnaire |-> questionnaire, entry |-> None, result |-> None,
     events |-> <<>>, logged |-> <<>>]

\* submit_stress_questionnaire(questionnaire) up to its await, lines 83-115:
\* the entry is built with the time read now and the handler is suspended at
\* insert_one; an entry that fails the model's validation raises (status 500,
\* no insert)
SubmitStressQuestionnaire ==
    /\ call.fn = "submit_stress_questionnaire" /\ call.pc = "ready"
    /\ LET entry == MoodEntry(call.questionnaire)
       IN  IF ValidMoodLog(entry)
           THEN call' = [call EXCEPT !.pc = "insert_one", !.entry = Some(entry)]
           ELSE call' = Return([status |-> 500], <<>>)
    /\ UNCHANGED <<AI_AVAILABLE, api_key, emotion_classifier, sentiment_analyzer,
                   client, chat_logs, risk_scores, alerts, now, req>>

\* lines 115-122: the insert_one of the questionnaire ends; the entry built
\* before the await is stored after the documents stored meanwhile and the
\* scores are answered, or the insert raises (status 500, nothing stored)
InsertQuestionnaire ==
    /\ call.fn = "submit_stress_questionnaire" /\ call.pc = "insert_one"
    /\ \E insert_ok \in BOOLEAN :
          LET entry == call.entry[1]
          IN  IF insert_ok
              THEN /\ req' = Append(req, entry)
                   /\ call' = Return([status |-> 200, id |-> Len(req) + 1,
                                      calculated_mood_score |-> entry.mood_score,
                                      calculated_stress_score |-> entry.stress_score],
                                     <<"insert">>)
              ELSE /\ call' = Return([status |-> 500], <<"insert">>)
                   /\ UNCHANGED req
    /\ now' = now + 1
    /\ UNCHANGED <<AI_AVAILABLE, api_key, emotion_classifier, sentiment_analyzer,
                   client, chat_logs, risk_scores, alerts>>

InitMood ==
    /\ AI_AVAILABLE = TRUE
    /\ api_key = ""
    /\ emotion_classifier = "None"
    /\ sentiment_analyzer = "None"
    /\ client = "None"
    /\ chat_logs = <<>>
    /\ risk_scores = <<>>
    /\ alerts = <<>>
    /\ now = 0
    /\ req = <<>>
    /\ call \in {QuestionnaireCall(q) : q \in Questionnaires}

NextMood ==
    \/ SubmitStressQuestionnaire
    \/ InsertQuestionnaire
    \/ LogMood
    \/ \E k \in 1..MaxMoodLogs : InsertMoodLog(k)

SpecMood == InitMood /\ [][NextMood]_vars

-----------------------------------------------------------------------------
(* backend/app/api/auth.py: register *)
(* In this specification req is the table of the register calls in flight   *)
(* and call is the psychiatrists collection (insertion order).  The event   *)
(* loop runs one handler until it awaits (each find_one, the insert_one),    *)
(* then any other handler may run.  connect_to_mongo creates no index on    *)
(* the psychiatrists collection, so insert_one accepts every document.      *)

\* the number of register calls in flight
MaxRegistrations == 2

RegistrationIds == 1..MaxRegistrations

Emails == {"a@clinic.org", "b@clinic.org"}

LicenseNumbers == {"L-1", "L-2"}

IdleRegistration ==
    [pc |-> "idle", email |-> "", license_number |-> "", created_at |-> 0,
     status |-> 0]

\* lines 137-146: PsychiatristInDB(...).model_dump(), the fields register tests
PsychiatristDocument(q) ==
    [email |-> q.email, license_number |-> q.license_number,
     is_active |-> TRUE, is_verified |-> FALSE, created_at |-> q.created_at]

\* lines 111-117: register(data) up to the await of the first find_one
Register(r) ==
    /\ req[r].pc = "idle"
    /\ \E email \in Emails, license_number \in LicenseNumbers :
          req' = [req EXCEPT ![r] = [IdleRegistration EXCEPT
                                        !.pc = "find_email", !.email = email,
                                        !.license_number = license_number]]
    /\ UNCHANGED <<AI_AVAILABLE, api_key, emotion_classifier, sentiment_analyzer,
                   client, chat_logs, risk_scores, alerts, now, call>>

\* lines 117-125: find_one({"email": data.email}) answers; 400 if it found one,
\* else the handler awaits the second find_one
FindEmail(r) ==
    /\ req[r].pc = "find_email"
    /\ LET existing == \E i \in DOMAIN call : call[i].email = req[r].email
       IN  req' = [req EXCEPT ![r] =
                      IF existing
                      THEN [req[r] EXCEPT !.pc = "rejected", !.status = 400]
                      ELSE [req[r] EXCEPT !.pc = "find_license"]]
    /\ now' = now + 1
    /\ UNCHANGED <<AI_AVAILABLE, api_key, emotion_classifier, sentiment_analyzer,
                   client, chat_logs, risk_scores, alerts, call>>

\* lines 125-146: find_one({"license_number": ...}) answers; 400 if it found one,
\* else the document is built and the handler awaits insert_one
FindLicense(r) ==
    /\ req[r].pc = "find_license"
    /\ LET existing_license ==
               \E i \in DOMAIN call : call[i].license_number = req[r].license_number
       IN  req' = [req EXCEPT ![r] =
                      IF existing_license
                      THEN [req[r] EXCEPT !.pc = "rejected", !.status = 400]
                      ELSE [req[r] EXCEPT !.pc = "insert", !.created_at = now]]
    /\ now' = now + 1
    /\ UNCHANGED <<AI_AVAILABLE, api_key, emotion_classifier, sentiment_analyzer,
                   client, chat_logs, risk_scores, alerts, call>>

\* lines 146-156: insert_one stores the document and register answers 200
InsertPsychiatrist(r) ==
    /\ req[r].pc = "insert"
    /\ call' = Append(call, PsychiatristDocument(req[r]))
    /\ req' = [req EXCEPT ![r].pc = "registered", ![r].status = 200]
    /\ now' = now + 1
    /\ UNCHANGED <<AI_AVAILABLE, api_key, emotion_classifier, sentiment_analyzer,
                   client, chat_logs, risk_scores, alerts>>

InitRegister ==
    /\ AI_AVAILABLE = TRUE
    /\ api_key = ""
    /\ emotion_classifier = "None"
    /\ sentiment_analyzer = "None"
    /\ client = "None"
    /\ chat_logs = <<>>
    /\ risk_scores = <<>>
    /\ alerts = <<>>
    /\ now = 0
    /\ req = [r \in RegistrationIds |-> IdleRegistration]
    /\ call = <<>>

NextRegister ==
    \E r \in RegistrationIds :
        \/ Register(r)
        \/ FindEmail(r)
        \/ FindLicense(r)
        \/ InsertPsychiatrist(r)

SpecRegister == InitRegister /\ [][NextRegister]_vars

-----------------------------------------------------------------------------
(* The routes of the application, in the order main.py makes them, the way   *)
(* the router picks the route of a request, and the GET handlers of risk.py  *)
(* and alerts.py that the requests below can reach.                          *)
(* In this specification call holds the log of the answered requests, the   *)
(* request whose handler is suspended at its await and the get_alert_stats   *)
(* call in progress, req is the table of the                                 *)
(* send_message requests that write to the collections meanwhile, and time  *)
(* is counted in days.  An alert's _id is the ObjectId of its position in    *)
(* the alerts collection.                                                    *)

\* the number of requests of a behaviour
MaxRequests == 1

\* a route: the methods it serves, its path and its endpoint
Route(method, path, endpoint) ==
    [methods |-> {method}, path |-> path, endpoint |-> endpoint]

\* main.py lines 21-26: FastAPI(...) with its default documentation routes,
\* made before any other route; these serve HEAD as well as GET
DocsRoutes ==
    [k \in 1..4 |->
        [methods |-> {"GET", "HEAD"},
         path |-> <<"/openapi.json", "/docs", "/docs/oauth2-redirect", "/redoc">>[k],
         endpoint |-> <<"openapi", "swagger_ui_html", "swagger_ui_redirect",
                        "redoc_html">>[k]]]

\* users.py, in the order of the decorators
UserRoutes ==
    << Route("POST", "/users", "create_user"),
       Route("GET", "/users/{user_id}", "get_user"),
       Route("PUT", "/users/{user_id}/consent", "update_consent") >>

\* chat.py, in the order of the decorators
ChatRoutes ==
    << Route("POST", "/chat", "send_message"),
       Route("GET", "/chat/history/{user_id}", "get_chat_history") >>

\* mood.py, in the order of the decorators
MoodRoutes ==
    << Route("POST", "/mood", "log_mood"),
       Route("GET", "/mood/history/{user_id}", "get_mood_history"),
       Route("POST", "/mood/questionnaire", "submit_stress_questionnaire"),
       Route("GET", "/mood/trends/{user_id}", "get_mood_trends") >>

\* dashboard.py, in the order of the decorators
DashboardRoutes ==
    << Route("GET", "/dashboard", "get_dashboard"),
       Route("GET", "/dashboard/users", "get_dashboard_users"),
       Route("GET", "/dashboard/user/{user_id}", "get_user_detail") >>

\* risk.py, in the order of the decorators
RiskRoutes ==
    << Route("GET", "/risk/{user_id}", "get_risk_scores"),
       Route("GET", "/risk/{user_id}/analysis", "get_risk_analysis"),
       Route("GET", "/risk/high-risk-users", "get_high_risk_users") >>

\* alerts.py, in the order of the decorators
AlertRoutes ==
    << Route("GET", "/alerts", "get_alerts"),
       Route("GET", "/alerts/{alert_id}", "get_alert"),
       Route("PUT", "/alerts/{alert_id}/resolve", "resolve_alert"),
       Route("PUT", "/alerts/{alert_id}/unresolve", "unresolve_alert"),
       Route("GET", "/alerts/stats", "get_alert_stats") >>

\* main.py lines 46-63: the routes declared on the application itself
RootRoutes ==
    << Route("GET", "/", "root"), Route("GET", "/health", "health_check") >>

\* include_router(router, prefix=prefix)
IncludeRouter(routes, prefix) ==
    [k \in DOMAIN routes |-> [routes[k] EXCEPT !.path = prefix \o routes[k].path]]

\* main.py lines 21-63: the routes of the application, in the order they are
\* made
AppRoutes ==
    DocsRoutes
        \o IncludeRouter(UserRoutes, "/api") \o IncludeRouter(ChatRoutes, "/api")
        \o IncludeRouter(MoodRoutes, "/api") \o IncludeRouter(DashboardRoutes, "/api")
        \o IncludeRouter(RiskRoutes, "/api") \o IncludeRouter(AlertRoutes, "/api")
        \o RootRoutes

RECURSIVE SplitPath(_)
\* path.split("/")
SplitPath(path) ==
    IF path = "" THEN <<"">>
    ELSE LET rest == SplitPath(SubSeq(path, 2, Len(path)))
         IN  IF CharAt(path, 1) = "/" THEN <<"">> \o rest
             ELSE <<CharAt(path, 1) \o rest[1]>> \o Tail(rest)

\* a segment {name} of a route path: it matches any non-empty segment
IsParam(segment) == Len(segment) >= 2 /\ CharAt(segment, 1) = "{"

\* the segments of the request path are those of the route path, a parameter
\* standing for any non-empty segment (the regex [^/]+ of a parameter matches
\* every character but the slash)
SegmentsMatch(route_path, path) ==
    LET p == SplitPath(route_path)
        q == SplitPath(path)
    IN  /\ Len(p) = Len(q)
        /\ \A i \in DOMAIN p : IF IsParam(p[i]) THEN q[i] # "" ELSE q[i] = p[i]

\* the path without the newline it ends in, if it ends in one
ChopNewline(path) ==
    IF path # "" /\ CharAt(path, Len(path)) = "\n"
    THEN SubSeq(path, 1, Len(path) - 1) ELSE path

\* the path regex of a route, compiled from its path as ^...$, matches the
\* request path: the $ of the regex also matches before a newline that ends
\* the path
PathMatches(route_path, path) ==
    \/ SegmentsMatch(route_path, path)
    \/ SegmentsMatch(route_path, ChopNewline(path))

\* the value of the path parameter of a route that matches ("" if it has none);
\* a parameter that ends the route takes the newline that ends the path
PathParam(route_path, path) ==
    LET p == SplitPath(route_path)
        q == SplitPath(IF SegmentsMatch(route_path, path) THEN path
                       ELSE ChopNewline(path))
    IN  IF \E i \in DOMAIN p : IsParam(p[i])
        THEN q[CHOOSE i \in DOMAIN p : IsParam(p[i])]
        ELSE ""

RECURSIVE RStripSlashes(_)
\* path.rstrip("/")
RStripSlashes(path) ==
    IF path # "" /\ CharAt(path, Len(path)) = "/"
    THEN RStripSlashes(SubSeq(path, 1, Len(path) - 1)) ELSE path

\* the path the router tries when no route matches (redirect_slashes): without
\* its trailing slashes, or with one added
RedirectPath(path) ==
    IF path # "" /\ CharAt(path, Len(path)) = "/"
    THEN RStripSlashes(path) ELSE path \o "/"

\* the router: the first route whose path and method match serves the request;
\* else the first route whose path alone matches answers 405; else, if some
\* route matches the path with its trailing slash taken off or put on, the
\* request is redirected there; else 404
Dispatch(routes, method, path) ==
    LET partial == {k \in DOMAIN routes : PathMatches(routes[k].path, path)}
        full    == {k \in partial : method \in routes[k].methods}
        First(ks) == CHOOSE k \in ks : \A j \in ks : k <= j
    IN  IF full # {}
        THEN [endpoint |-> routes[First(full)].endpoint,
              param |-> PathParam(routes[First(full)].path, path)]
        ELSE IF partial # {}
        THEN [endpoint |-> "method_not_allowed", param |-> ""]
        ELSE IF /\ path # "/"
                /\ \E k \in DOMAIN routes :
                      PathMatches(routes[k].path, RedirectPath(path))
        THEN [endpoint |-> "redirect_slashes", param |-> RedirectPath(path)]
        ELSE [endpoint |-> "not_found", param |-> ""]

HexDigits ==
    {"0", "1", "2", "3", "4", "5", "6", "7", "8", "9", "a", "b", "c", "d", "e", "f",
     "A", "B", "C", "D", "E", "F"}

\* the whitespace that bytes.fromhex skips
HexWhitespace == {" ", "\t", "\n", "\r", "\f", ""}

RECURSIVE FromHex(_)
\* bytes.fromhex(s).hex(): whitespace is skipped before each pair of digits;
\* None when fromhex raises
FromHex(s) ==
    IF s = "" THEN Some("")
    ELSE IF CharAt(s, 1) \in HexWhitespace THEN FromHex(SubSeq(s, 2, Len(s)))
    ELSE IF Len(s) >= 2 /\ CharAt(s, 1) \in HexDigits /\ CharAt(s, 2) \in HexDigits
    THEN LET rest == FromHex(SubSeq(s, 3, Len(s)))
         IN  IF rest = None THEN None
             ELSE Some(Lower(SubSeq(s, 1, 2)) \o rest[1])
    ELSE None

\* bson.ObjectId(s) accepts s: a string of 24 characters that bytes.fromhex
\* accepts
IsObjectId(s) == Len(s) = 24 /\ FromHex(s) # None

\* str(_id) of the alert at position k, for k < 10
ObjectIdOf(k) ==
    "65f00000000000000000000"
        \o <<"0", "1", "2", "3", "4", "5", "6", "7", "8", "9">>[k + 1]

Response(status, body) == [status |-> status, body |-> body]

\* str(ObjectId(s)): the digits of its bytes, in lower case
ObjectIdStr(s) == FromHex(s)[1]

\* alerts.py lines 62-83: the alert is found by the value of ObjectId(alert_id)
\* and answered with str(alert["_id"])
get_alert(alert_id) ==
    IF ~IsObjectId(alert_id) THEN Response(400, "Invalid alert ID")
    ELSE IF \A k \in DOMAIN alerts : ObjectIdOf(k) # ObjectIdStr(alert_id)
    THEN Response(404, "Alert not found")
    ELSE LET k == CHOOSE k \in DOMAIN alerts : ObjectIdOf(k) = ObjectIdStr(alert_id)
         IN  Response(200, [id |-> ObjectIdOf(k)] @@ alerts[k])

\* a query on the alerts collection: each condition is None or the value asked
AlertQuery(resolved, risk_level, created_since) ==
    [resolved |-> resolved, risk_level |-> risk_level,
     created_since |-> created_since]

\* count_documents(query)
CountAlerts(query) ==
    Cardinality({k \in DOMAIN alerts :
        /\ query.resolved = None \/ alerts[k].resolved = query.resolved[1]
        /\ query.risk_level = None \/ alerts[k].risk_level = query.risk_level[1]
        /\ query.created_since = None
              \/ alerts[k].created_at >= query.created_since[1]})

\* alerts.py lines 153-165: the queries of get_alert_stats, in the order of its
\* awaited count_documents calls, for a handler that read the clock at start
StatsQueries(start) ==
    << AlertQuery(None, None, None),
       AlertQuery(Some(FALSE), None, None),
       AlertQuery(None, None, Some(start - 1)),
       AlertQuery(None, None, Some(start - 7)),
       AlertQuery(None, None, Some(start - 30)),
       AlertQuery(Some(FALSE), Some("LOW"), None),
       AlertQuery(Some(FALSE), Some("MEDIUM"), None),
       AlertQuery(Some(FALSE), Some("HIGH"), None) >>

\* alerts.py lines 167-175: the statistics, from the eight counts
StatsResponse(counts) ==
    Response(200,
        [total_alerts |-> counts[1], unresolved_alerts |-> counts[2],
         resolved_alerts |-> counts[1] - counts[2],
         alerts_today |-> counts[3], alerts_this_week |-> counts[4],
         alerts_this_month |-> counts[5],
         unresolved_by_level |->
             [level \in {"LOW", "MEDIUM", "HIGH"} |->
                 counts[CASE level = "LOW" -> 6 [] level = "MEDIUM" -> 7
                          [] level = "HIGH" -> 8]]])

\* no get_alert_stats call has been made
IdleStats ==
    [pc |-> "idle", request |-> None, start |-> 0, counts |-> <<>>, result |-> None]

\* alerts.py lines 145-153: the handler reads the clock and awaits its first
\* count; request is the routed request it serves (None for a direct call)
StartedStats(request) ==
    [pc |-> "counting", request |-> request, start |-> now, counts |-> <<>>,
     result |-> None]

\* risk.py lines 162-198: the users are given as a set (the order of users of
\* equal max_score is the database's)
get_high_risk_users(start_date, days) ==
    LET matched == {j \in DOMAIN risk_scores :
                       /\ risk_scores[j].level = "HIGH"
                       /\ risk_scores[j].timestamp >= start_date}
        Of(u) == {j \in matched : risk_scores[j].user_id = u}
        Largest(S) == CHOOSE x \in S : \A y \in S : y <= x
        users ==
            {[user_id |-> SubSeq(u, 1, Min(8, Len(u))) \o "...", full_id |-> u,
              high_risk_occurrences |-> Cardinality(Of(u)),
              latest_occurrence |-> Largest({risk_scores[j].timestamp : j \in Of(u)}),
              max_score |-> Largest({risk_scores[j].score : j \in Of(u)})] :
                u \in {risk_scores[j].user_id : j \in matched}}
    IN  Response(200, [high_risk_users |-> users, total |-> Cardinality(users),
                       period_days |-> days])

\* the endpoint awaits the database before it answers: get_alert once
\* ObjectId(alert_id) has not raised (alerts.py line 67), get_risk_scores at
\* its fetch (risk.py line 27), get_high_risk_users at its aggregation
Awaits(endpoint, param) ==
    \/ endpoint \in {"get_risk_scores", "get_high_risk_users"}
    \/ endpoint = "get_alert" /\ IsObjectId(param)

\* the answer of the endpoint, run with the path parameter and the default
\* query parameters: start is the time the handler read before its await, the
\* collections are read as they are when the await is answered
\* (get_alert_stats, which answers after its counts, is started by the request)
Endpoint(endpoint, param, start) ==
    CASE endpoint = "get_alert"           -> get_alert(param)
      [] endpoint = "get_risk_scores"     -> Response(200, RiskHistory(param, start - 30))
      [] endpoint = "get_high_risk_users" -> get_high_risk_users(start - 7, 7)
      [] endpoint = "method_not_allowed"  -> Response(405, "Method Not Allowed")
      [] endpoint = "redirect_slashes"    -> Response(307, param)
      [] endpoint = "not_found"           -> Response(404, "Not Found")

\* requests to the fixed paths (also followed by a slash or a newline), to the
\* parameterised paths with the id of a stored alert (also written in
\* capitals), of no alert (also one with whitespace between its digits) and of
\* a user, to a path of no route, and a request whose method no route of its
\* path has
RouterRequests ==
    {[method |-> "GET", path |-> path] :
        path \in {"/api/alerts/stats", "/api/alerts/" \o ObjectIdOf(1),
                  "/api/alerts/65F000000000000000000001",
                  "/api/alerts/" \o ObjectIdOf(9),
                  "/api/alerts/65 f0 00 00 00 00 00 01 ",
                  "/api/alerts/stats\n", "/api/risk/high-risk-users",
                  "/api/risk/high-risk-users/",
                  "/api/risk/u1", "/api/alerts/stats/today"}}
    \cup {[method |-> "PUT", path |-> "/api/risk/high-risk-users"]}

\* the endpoint and path parameter the router picks for each request
Dispatched ==
    [request \in RouterRequests |->
        Dispatch(AppRoutes, request.method, request.path)]

\* an answered request
Answered(request, endpoint, response) ==
    [method |-> request.method, path |-> request.path, endpoint |-> endpoint,
     status |-> response.status, body |-> response.body]

\* a request whose handler is suspended at its await, having read the clock
Suspended(request, match) ==
    [request |-> request, endpoint |-> match.endpoint, param |-> match.param,
     start |-> now]

\* one request, up to the first await of its handler: the router picks the
\* endpoint; an answer of the router, or of a handler that raises before its
\* await, is given at once, else the handler has read the clock and is
\* suspended; a request that get_alert_stats serves is answered when its
\* counts are done
HandleRequest ==
    /\ Len(call.log) < MaxRequests
    /\ call.pending = None
    /\ \E request \in RouterRequests :
          LET match == Dispatched[request]
          IN  IF match.endpoint = "get_alert_stats"
              THEN /\ call.stats.pc = "idle"
                   /\ call' = [call EXCEPT !.stats = StartedStats(Some(request))]
              ELSE IF Awaits(match.endpoint, match.param)
              THEN call' = [call EXCEPT !.pending = Some(Suspended(request, match))]
              ELSE call' = [call EXCEPT !.log =
                              Append(@, Answered(request, match.endpoint,
                                           Endpoint(match.endpoint, match.param, now)))]
    /\ UNCHANGED <<AI_AVAILABLE, api_key, emotion_classifier, sentiment_analyzer,
                   client, chat_logs, risk_scores, alerts, now, req>>

\* the await of the suspended handler is answered from the collections as
\* they are now, and the handler runs to its end
AnswerRequest ==
    /\ call.pending # None
    /\ LET p == call.pending[1]
       IN  call' = [call EXCEPT
                       !.pending = None,
                       !.log = Append(@, Answered(p.request, p.endpoint,
                                            Endpoint(p.endpoint, p.param, p.start)))]
    /\ UNCHANGED <<AI_AVAILABLE, api_key, emotion_classifier, sentiment_analyzer,
                   client, chat_logs, risk_scores, alerts, now, req>>

\* get_alert_stats() called directly, lines 143-153
get_alert_stats ==
    /\ call.stats.pc = "idle"
    /\ call' = [call EXCEPT !.stats = StartedStats(None)]
    /\ UNCHANGED <<AI_AVAILABLE, api_key, emotion_classifier, sentiment_analyzer,
                   client, chat_logs, risk_scores, alerts, now, req>>

\* alerts.py lines 153-175: one awaited count_documents of get_alert_stats is
\* answered from the collection as it is now; after the eighth the handler
\* returns the statistics
CountDocuments ==
    /\ call.stats.pc = "counting"
    /\ LET stats  == call.stats
           counts == Append(stats.counts,
                            CountAlerts(StatsQueries(stats.start)[Len(stats.counts) + 1]))
       IN  IF Len(counts) < 8
           THEN call' = [call EXCEPT !.stats.counts = counts]
           ELSE call' = [pending |-> call.pending,
                         log |-> IF stats.request = None THEN call.log
                                 ELSE Append(call.log,
                                             Answered(stats.request[1], "get_alert_stats",
                                                      StatsResponse(counts))),
                         stats |-> [stats EXCEPT !.pc = "done", !.counts = counts,
                                                 !.result = Some(StatsResponse(counts))]]
    /\ UNCHANGED <<AI_AVAILABLE, api_key, emotion_classifier, sentiment_analyzer,
                   client, chat_logs, risk_scores, alerts, now, req>>

\* send_message(chat_message) with a high-risk message, while requests are
\* answered; its inserts follow one by one (InsertUserLog to InsertAlert)
SendMessageMeanwhile == StartRequest(1, {"Suicide"}, {"u1"})

\* up to MaxAlerts alerts of HIGH messages of the last days, each resolved or
\* not, and the risk records of these messages; the model loads of the process
\* have failed and it has no API key
InitRouter ==
    /\ AI_AVAILABLE = TRUE
    /\ api_key = ""
    /\ emotion_classifier = "fallback"
    /\ sentiment_analyzer = "fallback"
    /\ client = "None"
    /\ chat_logs = <<>>
    /\ \E n \in 0..MaxAlerts :
       \E users \in [1..n -> Users], resolved \in [1..n -> BOOLEAN] :
          /\ alerts = [k \in 1..n |->
                          [NewAlert([user_id |-> users[k], risk_level |-> "HIGH",
                                     message |-> "Suicide", timestamp |-> k])
                              EXCEPT !.resolved = resolved[k],
                                     !.resolved_at = IF resolved[k] THEN Some(n + 1)
                                                     ELSE None]]
          /\ risk_scores = [k \in 1..n |->
                               RiskDocument(StoredEntry(users[k], "Suicide",
                                               detect_risk("Suicide", None, None)), k)]
          /\ now = n + 1
    /\ req = <<IdleRequest>>
    /\ call = [log |-> <<>>, pending |-> None, stats |-> IdleStats]

NextRouter ==
    \/ HandleRequest
    \/ AnswerRequest
    \/ get_alert_stats
    \/ CountDocuments
    \/ SendMessageMeanwhile
    \/ InsertUserLog(1)
    \/ InsertAiLog(1)
    \/ InsertRisk(1)
    \/ InsertAlert(1)

SpecRouter == InitRouter /\ [][NextRouter]_vars

-----------------------------------------------------------------------------
(* Properties of the direct calls *)

\* text contains a phrase of HIGH_RISK_KEYWORDS, case-insensitively
HasHighRiskKeyword(text) ==
    \E k \in DOMAIN HIGH_RISK_KEYWORDS : Contains(Lower(text), HIGH_RISK_KEYWORDS[k])

MatchesMediumPattern(text) ==
    \E k \in DOMAIN MEDIUM_RISK_PATTERNS : Search(MEDIUM_RISK_PATTERNS[k], Lower(text))

MatchesLowPattern(text) ==
    \E k \in DOMAIN LOW_RISK_PATTERNS : Search(LOW_RISK_PATTERNS[k], Lower(text))

\* text matches a low-risk pattern and nothing of the higher tiers
LowRiskOnly(text) ==
    /\ MatchesLowPattern(text)
    /\ ~MatchesMediumPattern(text)
    /\ ~HasHighRiskKeyword(text)

\* the emotion argument is the label joy, in any letter case
IsJoy(emotion) == emotion # None /\ Lower(emotion[1]) = "joy"

Done(fn) == call.fn = fn /\ call.pc = "done"

Result == call.result[1]

\* C1 as stated: for every text with a high-risk keyword, detect_risk returns
\* level HIGH and a score of at least 85, whatever the emotion and sentiment.
C1_HighRiskScoreAtLeast85 ==
    (Done("detect_risk") /\ HasHighRiskKeyword(call.text))
        => (Result.level = "HIGH" /\ Result.score >= 85)

\* C1 amended: for every text with a high-risk keyword, detect_risk returns
\* level HIGH and a score of at least 75, and of at least 85 unless the emotion
\* argument is joy (the one label with a negative adjustment).
C1_HighRiskIsHigh ==
    (Done("detect_risk") /\ HasHighRiskKeyword(call.text))
        => /\ Result.level = "HIGH"
           /\ Result.score >= 75
           /\ (~IsJoy(call.emotion) => Result.score >= 85)

\* C1 witness: a capitalised keyword scored with emotion joy
C1_Witness ==
    /\ Done("detect_risk")
    /\ call.text = "Suicide"
    /\ call.emotion = Some("joy")
    /\ Result.level = "HIGH"
    /\ Result.score = 75

\* C4: the score detect_risk returns lies in 0..100 and the level is HIGH iff
\* score >= 70, MEDIUM iff 35 <= score < 70, and LOW iff score < 35.
C4_ScoreClampedLevelConsistent ==
    Done("detect_risk")
        => /\ Result.score >= 0 /\ Result.score <= 100
           /\ (Result.level = "HIGH") <=> (Result.score >= 70)
           /\ (Result.level = "MEDIUM") <=> (Result.score >= 35 /\ Result.score < 70)
           /\ (Result.level = "LOW") <=> (Result.score < 35)

\* C4 witness: the accumulated score 85 + 15 + 10 is clamped to 100
C4_Witness ==
    /\ Done("detect_risk")
    /\ call.text = "Suicide"
    /\ call.emotion = Some("sadness")
    /\ call.sentiment = Some(-10000)
    /\ Result.score = 100
    /\ Result.level = "HIGH"

\* C5 as stated: generate_response returns a non-empty string whether the
\* backend is absent, raises, or returns a completion.
C5_ReplyNeverEmpty ==
    Done("generate_response") => Result # ""

\* C8: for an empty or whitespace-only text classify_emotion returns
\* {neutral, 0.0} and analyze_sentiment returns {0.0, neutral}, and the call
\* neither initialises nor invokes the inference backend.
C8_BlankTextDefaults ==
    /\ (Done("classify_emotion") /\ IsBlank(call.text))
          => /\ Result = [emotion |-> "neutral", confidence |-> 0]
             /\ call.events = <<>>
             /\ emotion_classifier = "None"
    /\ (Done("analyze_sentiment") /\ IsBlank(call.text))
          => /\ Result = [score |-> 0, polarity |-> "neutral"]
             /\ call.events = <<>>
             /\ sentiment_analyzer = "None"

\* C8 witness: classify_emotion has returned for a whitespace-only text
C8_Witness ==
    /\ Done("classify_emotion")
    /\ call.text = " "
    /\ Result = [emotion |-> "neutral", confidence |-> 0]
    /\ emotion_classifier = "None"

\* C9 as stated: for an empty or whitespace-only text detect_risk returns
\* exactly {LOW, 0.0, []}, whatever the emotion and sentiment.
C9_BlankTextZeroRisk ==
    (Done("detect_risk") /\ IsBlank(call.text))
        => Result = [level |-> "LOW", score |-> 0, factors |-> <<>>]

\* the scores detect_risk gives to the texts with a high-risk keyword
HighTierScores ==
    {detect_risk(t, e, sv).score :
        t \in {x \in Texts : HasHighRiskKeyword(x)},
        e \in EmotionArgs, sv \in SentimentArgs}

\* the scores detect_risk gives to the texts that match only a low-risk pattern
LowTierScores ==
    {detect_risk(t, e, sv).score :
        t \in {x \in Texts : LowRiskOnly(x)},
        e \in EmotionArgs, sv \in SentimentArgs}

\* C10: the score of a call on a text that matches only a low-risk pattern is
\* below the score of every call on a text with a high-risk keyword, whatever
\* emotion and sentiment each of the two calls is given.
C10_TierMonotonic ==
    Done("detect_risk")
        => /\ LowRiskOnly(call.text) => \A b \in HighTierScores : Result.score < b
           /\ HasHighRiskKeyword(call.text)
                 => \A a \in LowTierScores : a < Result.score

\* C10 witness: the highest low-tier score, 25 + 15 + 10
C10_Witness ==
    /\ Done("detect_risk")
    /\ LowRiskOnly(call.text)
    /\ call.emotion = Some("sadness")
    /\ call.sentiment = Some(-10000)
    /\ Result.score = 50
    /\ 75 \in HighTierScores

HasPrefix(s, p) == Len(s) >= Len(p) /\ SubSeq(s, 1, Len(p)) = p

\* the stage a factor comes from: 1 high-risk keyword, 2 distress pattern,
\* 3 stress indicator, 4 emotion, 5 sentiment
FactorRank(f) ==
    IF HasPrefix(f, "High-risk keyword detected: '") THEN 1
    ELSE IF f = "Distress pattern detected" THEN 2
    ELSE IF f = "Stress indicator detected" THEN 3
    ELSE IF HasPrefix(f, "Negative emotion detected: ") THEN 4
    ELSE IF f \in {"Very negative sentiment", "Negative sentiment"} THEN 5
    ELSE 0

\* the position in HIGH_RISK_KEYWORDS of the keyword a high-risk factor names
KeywordIndex(f) ==
    CHOOSE k \in DOMAIN HIGH_RISK_KEYWORDS :
        f = "High-risk keyword detected: '" \o HIGH_RISK_KEYWORDS[k] \o "'"

\* C11: the factors detect_risk returns are pairwise distinct and in the order
\* of first detection: high-risk keyword factors (in keyword-list order), then
\* the distress factor, the stress factor, the emotion factor, the sentiment
\* factor.
C11_FactorsDistinctOrdered ==
    Done("detect_risk") =>
        LET fs == Result.factors
        IN  /\ \A i, j \in DOMAIN fs : i # j => fs[i] # fs[j]
            /\ \A i \in DOMAIN fs : FactorRank(fs[i]) \in 1..5
            /\ \A i, j \in DOMAIN fs :
                  i < j => /\ FactorRank(fs[i]) <= FactorRank(fs[j])
                           /\ FactorRank(fs[i]) = 1 /\ FactorRank(fs[j]) = 1
                                 => KeywordIndex(fs[i]) < KeywordIndex(fs[j])

\* C11 witness: two distress patterns match and the factor is listed once,
\* before the emotion and sentiment factors
C11_Witness ==
    /\ Done("detect_risk")
    /\ Len(MediumRiskMatches(Lower(call.text))) >= 2
    /\ Result.factors = <<"Distress pattern detected",
                          "Negative emotion detected: sadness",
                          "Very negative sentiment">>

\* base_score and factors before and after the low-risk stage of the call
BeforeLowStage == call.events[3]

AfterLowStage == call.events[4]

LowPatternsMatched(text) ==
    {k \in DOMAIN LOW_RISK_PATTERNS : Search(LOW_RISK_PATTERNS[k], Lower(text))}

\* C24: the low-risk stage never lowers the score; with one or several
\* low-risk patterns matching it appends exactly one "Stress indicator
\* detected" factor and takes a score below 40 to max(score, 25), leaving a
\* score of 40 or more as it is; with no pattern matching it changes nothing.
C24_LowStageRaisesOnce ==
    (Done("detect_risk") /\ call.events # <<>>)
        => /\ AfterLowStage.score >= BeforeLowStage.score
           /\ IF LowPatternsMatched(call.text) # {}
              THEN /\ AfterLowStage.score
                         = IF BeforeLowStage.score < 40
                           THEN Max(BeforeLowStage.score, 25)
                           ELSE BeforeLowStage.score
                   /\ AfterLowStage.factors
                         = Append(BeforeLowStage.factors, "Stress indicator detected")
              ELSE AfterLowStage = BeforeLowStage

\* C24 witness: two low-risk patterns match a text without keyword or distress
\* pattern: the score goes from 0 to 25 and one factor is added
C24_Witness ==
    /\ Done("detect_risk") /\ call.events # <<>>
    /\ Cardinality(LowPatternsMatched(call.text)) = 2
    /\ BeforeLowStage.score = 0 /\ AfterLowStage.score = 25
    /\ Len(AfterLowStage.factors) = 1

\* base_score and factors before and after the sentiment stage of the call
BeforeSentimentStage == call.events[5]

AfterSentimentStage == call.events[6]

\* C25: the sentiment stage applies exactly one of three cases: a sentiment
\* below -0.6 adds 10 and the factor "Very negative sentiment"; from -0.6 to
\* below -0.3 it adds 5 and the factor "Negative sentiment"; from -0.3 up, or
\* without a sentiment, it changes nothing.  -0.6 is in the second case and
\* -0.3 in the third.
C25_SentimentStageCases ==
    (Done("detect_risk") /\ call.events # <<>>)
        => LET before == BeforeSentimentStage
               after  == AfterSentimentStage
           IN  IF call.sentiment # None /\ call.sentiment[1] < -6000
               THEN /\ after.score = before.score + 10
                    /\ after.factors = Append(before.factors, "Very negative sentiment")
               ELSE IF call.sentiment # None /\ call.sentiment[1] < -3000
               THEN /\ after.score = before.score + 5
                    /\ after.factors = Append(before.factors, "Negative sentiment")
               ELSE after = before

\* C25 witness: a call with sentiment exactly -0.6 on a text with a high-risk
\* keyword got 5 points and the factor of the second case
C25_Witness ==
    /\ Done("detect_risk") /\ call.events # <<>>
    /\ call.sentiment = Some(-6000)
    /\ BeforeSentimentStage.score >= 85
    /\ AfterSentimentStage.score = BeforeSentimentStage.score + 5
    /\ AfterSentimentStage.factors[Len(AfterSentimentStage.factors)] = "Negative sentiment"

\* detect_risk reports a high-risk keyword factor for the text
ReportsHighRiskKeyword(text) ==
    LET factors == detect_risk(text, None, None).factors
    IN  \E i \in DOMAIN factors : HasPrefix(factors[i], "High-risk keyword detected: '")

HighRiskKeywordSet == {HIGH_RISK_KEYWORDS[k] : k \in DOMAIN HIGH_RISK_KEYWORDS}

\* the crisis indicators that occur in the text of the call
IndicatorsFound == {c \in crisis_indicators : Contains(Lower(call.text), c)}

\* C26 as stated: the crisis indicators are high-risk keywords (the list is a
\* subset), so whenever check_for_crisis(text) is true the indicators found
\* are high-risk keywords and detect_risk(text) reports a high-risk keyword
\* factor.
C26_CrisisListIsSubset ==
    (Done("check_for_crisis") /\ Result = TRUE)
        => /\ IndicatorsFound # {}
           /\ IndicatorsFound \subseteq HighRiskKeywordSet
           /\ ReportsHighRiskKeyword(call.text)

\* C26 amended: every crisis indicator is a high-risk keyword or contains one
\* ("going to hurt myself" contains "hurt myself"), so whenever
\* check_for_crisis(text) is true detect_risk(text) reports the factor of a
\* high-risk keyword for each indicator found.
C26_CrisisImpliesHighRiskKeyword ==
    (Done("check_for_crisis") /\ Result = TRUE)
        => /\ IndicatorsFound # {}
           /\ \A c \in IndicatorsFound :
                 \E k \in HighRiskKeywordSet :
                    /\ Contains(c, k)
                    /\ \E i \in DOMAIN detect_risk(call.text, None, None).factors :
                          detect_risk(call.text, None, None).factors[i]
                             = "High-risk keyword detected: '" \o k \o "'"
           /\ ReportsHighRiskKeyword(call.text)

\* C26 witness: the crisis check is true by the indicator that is not a
\* high-risk keyword, and detect_risk reports the keyword inside it
C26_Witness ==
    /\ Done("check_for_crisis") /\ Result = TRUE
    /\ Contains(Lower(call.text), "going to hurt myself")
    /\ "going to hurt myself" \notin HighRiskKeywordSet
    /\ detect_risk(call.text, None, None).factors
          = <<"High-risk keyword detected: 'hurt myself'">>

\* the call took the fallback path: no client (mock), so the reply is the
\* selector's
RepliedByFallback == Done("generate_response") /\ client = "mock"

HasGreeting(text) ==
    \E word \in {"hi", "hello", "hey"} : Contains(Lower(text), word)

\* the template of an emotion among those in own, if any
EmotionTemplate(emotion) ==
    IF emotion = Some("sadness") THEN Some(SADNESS_REPLY)
    ELSE IF emotion = Some("fear") THEN Some(FEAR_REPLY)
    ELSE IF emotion = Some("anger") THEN Some(ANGER_REPLY)
    ELSE IF emotion = Some("joy") THEN Some(JOY_REPLY)
    ELSE None

\* the reply by the rules in order, the emotion rule given by template
ReplyByPrecedence(template) ==
    IF call.risk_level = Some("HIGH") THEN HIGH_RISK_REPLY
    ELSE IF HasGreeting(call.text) THEN GREETING_REPLY
    ELSE IF template # None THEN template[1]
    ELSE IF call.risk_level = Some("MEDIUM") THEN MEDIUM_RISK_REPLY
    ELSE DEFAULT_REPLY

\* C21 as stated: the fallback reply is chosen by the first rule that matches
\* among HIGH risk, greeting keyword, emotion sadness, fear, anger or joy,
\* MEDIUM risk, default; any other emotion falls through to the last two.
C21_SelectorPrecedence ==
    RepliedByFallback => Result = ReplyByPrecedence(EmotionTemplate(call.emotion))

\* C21 amended: the same, with the emotion anxiety answered by the template of
\* fear.
C21_SelectorPrecedenceWithAnxiety ==
    RepliedByFallback
        => Result = ReplyByPrecedence(IF call.emotion = Some("anxiety")
                                      THEN Some(FEAR_REPLY)
                                      ELSE EmotionTemplate(call.emotion))

\* C21 witness: a MEDIUM call with emotion sadness and no greeting got the
\* template of sadness
C21_Witness ==
    /\ RepliedByFallback
    /\ call.risk_level = Some("MEDIUM") /\ call.emotion = Some("sadness")
    /\ ~HasGreeting(call.text)
    /\ Result = SADNESS_REPLY /\ Result # MEDIUM_RISK_REPLY

\* the call was answered by the keyword search: the model did not load
ClassifiedByFallback == Done("classify_emotion") /\ emotion_classifier = "fallback"

FallbackOrder == <<"joy", "sadness", "anger", "fear", "surprise", "disgust">>

\* a keyword of the k-th emotion occurs in the lowercased text
EmotionOccurs(k, text) ==
    \E w \in EMOTION_KEYWORDS[k].keywords : Contains(Lower(text), w)

\* C22: the fallback classifier returns, with confidence 0.6, the first
\* emotion in the order joy, sadness, anger, fear, surprise, disgust that has
\* a keyword in the lowercased text, and neutral with confidence 0.5 when no
\* emotion has one.
C22_FirstEmotionInOrderWins ==
    /\ \A k \in DOMAIN EMOTION_KEYWORDS : EMOTION_KEYWORDS[k].emotion = FallbackOrder[k]
    /\ ClassifiedByFallback
          => /\ \A k \in DOMAIN FallbackOrder :
                   (EmotionOccurs(k, call.text)
                    /\ \A j \in 1..(k - 1) : ~EmotionOccurs(j, call.text))
                      => Result = [emotion |-> FallbackOrder[k], confidence |-> 6000]
             /\ (\A k \in DOMAIN FallbackOrder : ~EmotionOccurs(k, call.text))
                   => Result = [emotion |-> "neutral", confidence |-> 5000]

\* C22 witness: a text with keywords of sadness and of joy, in that order in
\* the text, was classified as joy
C22_Witness ==
    /\ ClassifiedByFallback
    /\ call.text = "lonelyhappy"
    /\ EmotionOccurs(1, call.text) /\ EmotionOccurs(2, call.text)
    /\ Result = [emotion |-> "joy", confidence |-> 6000]

-----------------------------------------------------------------------------
(* Properties of get_risk_scores *)

\* the returned scores are the documents of the user, stamped on or after
\* the start date, that the collection held when the fetch was answered,
\* newest first
NewestFirstOfUser(h) ==
    /\ \A k \in DOMAIN h.scores : h.scores[k].user_id = h.user_id
    /\ \A j, k \in DOMAIN h.scores :
          j < k => h.scores[j].timestamp > h.scores[k].timestamp
    /\ Len(h.scores) =
          Cardinality({i \in 1..call.fetched :
                          /\ risk_scores[i].user_id = h.user_id
                          /\ risk_scores[i].timestamp >= call.start_date[1]})

\* five times the sum of the older scores, and twice the sum of the 5 most
\* recent ones, of a history of 7: the two averages over the denominator 10
RecentTimes2(h) == 2 * SeqSum([k \in DOMAIN h.scores |-> h.scores[k].score], 1, 5)

OlderTimes5(h) == 5 * SeqSum([k \in DOMAIN h.scores |-> h.scores[k].score], 6, 7)

\* C12 as stated: fewer than 5 scores give "insufficient_data"; with 7 scores,
\* most recent first, an average of the 5 most recent at least 5 points above
\* the average of the older ones gives "worsening".
C12_TrendAtLeast5Worsening ==
    Done("get_risk_scores") =>
        /\ NewestFirstOfUser(Result)
        /\ Len(Result.scores) < 5 => Result.trend = "insufficient_data"
        /\ Len(Result.scores) = 7 /\ RecentTimes2(Result) >= OlderTimes5(Result) + 50
              => Result.trend = "worsening"

\* C12 amended: fewer than 5 scores give "insufficient_data"; with 7 scores,
\* most recent first, an average of the 5 most recent more than 5 points above
\* the average of the older ones gives "worsening".
C12_TrendMoreThan5Worsening ==
    Done("get_risk_scores") =>
        /\ NewestFirstOfUser(Result)
        /\ Len(Result.scores) < 5 => Result.trend = "insufficient_data"
        /\ Len(Result.scores) = 7 /\ RecentTimes2(Result) > OlderTimes5(Result) + 50
              => Result.trend = "worsening"

\* C12 witness: 7 scores inserted out of timestamp order, the 5 most recent
\* 25 and the older two 10 and 15, reported as worsening
C12_Witness ==
    /\ Done("get_risk_scores")
    /\ Len(risk_scores) = 7 /\ Len(Result.scores) = 7
    /\ risk_scores[7].timestamp = 6
    /\ [k \in 1..7 |-> Result.scores[k].score] = <<25, 25, 25, 25, 25, 15, 10>>
    /\ Result.trend = "worsening"

-----------------------------------------------------------------------------
(* Properties of the lazily initialised handles *)

\* how often the threads did ev (construct, store) in getter fn
CountOf(fn, ev) ==
    LET n[t \in 0..MaxThreads] ==
            IF t = 0 THEN 0
            ELSE n[t - 1] + (IF req[t].fn = fn
                             THEN Len(SelectSeq(req[t].events, LAMBDA e : e = ev))
                             ELSE 0)
    IN  n[MaxThreads]

\* C13: under every interleaving of the threads' first calls each backend
\* constructor has run at most once and each global has been set at most once
\* (so it never changes after it is first set).
C13_InitializedAtMostOnce ==
    \A fn \in Getters : CountOf(fn, "construct") <= 1 /\ CountOf(fn, "store") <= 1

-----------------------------------------------------------------------------
(* Properties of successive calls *)

\* what a call returns without any backend
NonBackendResult(c) ==
    CASE c.fn = "classify_emotion" ->
            IF IsBlank(c.text) THEN [emotion |-> "neutral", confidence |-> 0]
            ELSE fallback_classify(c.text)
      [] c.fn = "analyze_sentiment" ->
            IF IsBlank(c.text) THEN [score |-> 0, polarity |-> "neutral"]
            ELSE fallback_analyze(c.text)
      [] c.fn = "generate_response" -> generate_mock_response(c.text, None, None)

\* the call invoked the backend: an inference or a completion request
Invocations(c) == SelectSeq(c.events, LAMBDA e : e \in {"infer", "create"})

\* C14: once a component is in fallback mode (its model load raised, or no
\* valid API key was present at the first call), every later call of that
\* component finds and leaves the handle in fallback mode, neither loads nor
\* invokes a backend, and returns the result of the fallback path.
C14_FallbackIsPermanent ==
    \A i, j \in DOMAIN req :
        i < j /\ req[i].fn = req[j].fn /\ req[i].after \in {"fallback", "mock"} =>
            /\ req[j].before = req[i].after
            /\ req[j].after = req[i].after
            /\ req[j].events = <<>>
            /\ req[j].result = NonBackendResult(req[j])

\* C14 witness: the model load of the first classify_emotion call raised; a
\* later call classifies by keywords without a load; a generate_response call
\* that found no key is followed by the key being set
C14_Witness ==
    /\ Len(req) = 3
    /\ req[1].fn = "classify_emotion" /\ req[1].events = <<"load">>
    /\ req[1].after = "fallback"
    /\ req[2].fn = "classify_emotion" /\ req[2].text = "lonely"
    /\ req[2].events = <<>>
    /\ req[2].result = [emotion |-> "sadness", confidence |-> 6000]
    /\ req[3].fn = "generate_response" /\ req[3].after = "mock"
    /\ api_key = "sk-test"

\* C19: a call invokes its backend at most once; when the invocation raises,
\* the call returns the fallback result and leaves the handle in place, and the
\* next call of that component on a non-blank text invokes the backend again.
C19_FailureHandledPerCall ==
    \A j \in DOMAIN req :
        /\ Len(Invocations(req[j])) <= 1
        /\ Len(Invocations(req[j])) = 1 /\ req[j].backend = "raise" =>
              /\ req[j].result = NonBackendResult(req[j])
              /\ req[j].after \in {"pipeline", "AsyncOpenAI"}
              /\ \A k \in DOMAIN req :
                    j < k /\ req[k].fn = req[j].fn /\ ~IsBlank(req[k].text) =>
                        /\ req[k].before = req[j].after
                        /\ Len(Invocations(req[k])) = 1

\* C19 witness: the classifier raises on one call, which returns the keyword
\* result, and is invoked again by the next call, which returns its label
C19_Witness ==
    /\ Len(req) = 3
    /\ \A j \in 1..3 : req[j].fn = "classify_emotion" /\ req[j].text = "lonely"
    /\ req[2].backend = "raise" /\ req[2].events = <<"infer">>
    /\ req[2].result = [emotion |-> "sadness", confidence |-> 6000]
    /\ req[3].events = <<"infer">>
    /\ req[3].result = [emotion |-> "joy", confidence |-> 9512]

-----------------------------------------------------------------------------
(* Properties of the pipeline in fallback mode *)

HasJoyKeyword(text) ==
    \E w \in EMOTION_KEYWORDS[1].keywords : Contains(Lower(text), w)

HasPositiveWord(text) == \E w \in positive_words : Contains(Lower(text), w)

HasNegativeWord(text) == \E w \in negative_words : Contains(Lower(text), w)

\* a joy keyword, a positive word, no negative word, no risk keyword or pattern
PlainlyJoyful(text) ==
    /\ HasJoyKeyword(text) /\ HasPositiveWord(text) /\ ~HasNegativeWord(text)
    /\ ~HasHighRiskKeyword(text)
    /\ ~MatchesMediumPattern(text) /\ ~MatchesLowPattern(text)

\* C16: with both classifiers in fallback mode, a text with a joy keyword and a
\* positive word, no negative word and no risk keyword or pattern is analysed
\* as emotion joy, sentiment positive with a score above 0.2, and risk LOW
\* with a score below 35.
C16_JoyfulTextIsJoyPositiveLow ==
    (Done("pipeline") /\ PlainlyJoyful(call.text))
        => /\ emotion_classifier = "fallback" /\ sentiment_analyzer = "fallback"
           /\ Result.emotion = "joy"
           /\ Result.sentiment_polarity = "positive"
           /\ Result.sentiment_score > 2000
           /\ Result.risk_level = "LOW"
           /\ Result.risk_score < 35

\* C16 witness: the example text of the specification has been analysed, on a
\* process whose classifiers went into fallback mode during this request
C16_Witness ==
    /\ Done("pipeline")
    /\ call.text = "I'm so happy today, everything is great!"
    /\ PlainlyJoyful(call.text)
    /\ Result.emotion = "joy" /\ Result.sentiment_score = 10000
    /\ Result.risk_level = "LOW"

-----------------------------------------------------------------------------
(* Properties of get_chat_history *)

LogsOf(user_id) == {chat_logs[i] : i \in {j \in DOMAIN chat_logs : chat_logs[j].user_id = user_id}}

Returned == {Result.messages[k] : k \in DOMAIN Result.messages}

\* the messages returned are in ascending order of timestamp, they are stored
\* logs of the user, each once, and no log left out is newer than one returned
ChronologicalMostRecent ==
    /\ \A i, j \in DOMAIN Result.messages :
          i < j => Result.messages[i].timestamp <= Result.messages[j].timestamp
    /\ Returned \subseteq LogsOf(call.user_id)
    /\ Cardinality(Returned) = Len(Result.messages)
    /\ \A x \in LogsOf(call.user_id) \ Returned :
          \A y \in Returned : x.timestamp <= y.timestamp

\* C17: get_chat_history returns the user's messages in ascending order of
\* timestamp, they are the min(limit, total) most recent messages of that
\* user, and total_count is the number of messages returned.
C17_HistoryIsMostRecentLimit ==
    Done("get_chat_history")
        => /\ ChronologicalMostRecent
           /\ Len(Result.messages)
                 = Min(call.limit, Cardinality(LogsOf(call.user_id)))
           /\ Result.total_count = Len(Result.messages)

-----------------------------------------------------------------------------
(* Properties of submit_stress_questionnaire *)

\* ten times the mean of the five stress factors of the questionnaire
MeanTimes10(q) ==
    2 * ((5 - q.sleep_quality) + (5 - q.energy_level) + (5 - q.social_connection)
         + q.anxiety_level + (5 - q.concentration))

\* the documents of mood_logs that a questionnaire wrote
FromQuestionnaire(entry) ==
    /\ entry.notes # None
    /\ Len(entry.notes[1]) >= 18
    /\ SubSeq(entry.notes[1], 1, 18) = "From questionnaire"

\* C18: for every questionnaire with ratings in 1..5 the entry is valid: the
\* handler never fails on its own scores, stress_score is
\* min(10, max(1, floor(2 * mean))) and lies in 1..10, mood_score is
\* max(1, 11 - stress_score) and lies in 1..10, and when the insert succeeds
\* these are the scores stored and reported, whatever log_mood has written to
\* the same collection.
C18_QuestionnaireScoresInRange ==
    Done("submit_stress_questionnaire")
        => LET q      == call.questionnaire
               stress == Min(10, Max(1, (2 * MeanTimes10(q)) \div 10))
               mood   == Max(1, 11 - stress)
           IN  /\ stress \in 1..10 /\ mood \in 1..10
               /\ call.events = <<"insert">>
               /\ Result.status = 200
                     => /\ Result.calculated_stress_score = stress
                        /\ Result.calculated_mood_score = mood
                        /\ Result.id \in DOMAIN req
                        /\ FromQuestionnaire(req[Result.id])
                        /\ req[Result.id].stress_score = stress
                        /\ req[Result.id].mood_score = mood
               /\ \A i \in DOMAIN req :
                     /\ req[i].stress_score \in 1..10 /\ req[i].mood_score \in 1..10
                     /\ FromQuestionnaire(req[i]) => Result.status = 200 /\ i = Result.id

\* C18 witness: the calmest questionnaire, whose floor is 0, is stored with
\* stress 1 and mood 10 after a log_mood entry with stress 10
C18_Witness ==
    /\ Done("submit_stress_questionnaire")
    /\ MeanTimes10(call.questionnaire) = 2
    /\ Len(req) = 2 /\ Result.id = 2
    /\ req[1].stress_score = 10 /\ ~FromQuestionnaire(req[1])
    /\ req[2].stress_score = 1 /\ req[2].mood_score = 10

\* the sentiment step of the pipeline has run, in fallback mode
AnalyzedByFallback ==
    call.fn = "pipeline" /\ call.sentiment_result # None /\ sentiment_analyzer = "fallback"

PositiveCount(text) == Cardinality({w \in positive_words : Contains(Lower(text), w)})

NegativeCount(text) == Cardinality({w \in negative_words : Contains(Lower(text), w)})

\* the polarity that goes with a score in 1/10000
PolarityOfScore(score) ==
    IF score > 2000 THEN "positive" ELSE IF score < -2000 THEN "negative" ELSE "neutral"

\* C23 as stated: with p positive and n negative words in the lowercased text,
\* the result is neutral 0.0 if p + n = 0, and else the score is exactly
\* (p - n) / (p + n), within [-1, 1], with polarity positive above 0.2,
\* negative below -0.2 and neutral otherwise.
C23_ScoreIsQuotient ==
    AnalyzedByFallback
        => LET r == call.sentiment_result[1]
               p == PositiveCount(call.text)
               n == NegativeCount(call.text)
           IN  IF p + n = 0 THEN r = [score |-> 0, polarity |-> "neutral"]
               ELSE /\ r.score * (p + n) = (p - n) * 10000
                    /\ r.score >= -10000 /\ r.score <= 10000
                    /\ r.polarity = PolarityOfScore(r.score)

\* C23 amended: the same with the score (p - n) / (p + n) rounded to 4
\* decimals, p and n counting each listed word once if it occurs.
C23_ScoreIsRoundedQuotient ==
    AnalyzedByFallback
        => LET r == call.sentiment_result[1]
               p == PositiveCount(call.text)
               n == NegativeCount(call.text)
           IN  IF p + n = 0 THEN r = [score |-> 0, polarity |-> "neutral"]
               ELSE /\ r.score = RoundDiv((p - n) * 10000, p + n)
                    /\ r.score >= -10000 /\ r.score <= 10000
                    /\ r.polarity = PolarityOfScore(r.score)

\* C23 witness: two positive words and a negative one give 0.3333, positive
C23_Witness ==
    /\ AnalyzedByFallback
    /\ PositiveCount(call.text) = 2 /\ NegativeCount(call.text) = 1
    /\ call.sentiment_result[1] = [score |-> 3333, polarity |-> "positive"]

-----------------------------------------------------------------------------
(* Properties of the alert operations *)

\* the calls whose update was applied to alert a
AppliedTo(a) ==
    {k \in DOMAIN call : call[k].status = 200 /\ call[k].target = a}

\* the call whose update was the last one applied to alert a
LastApplied(a) ==
    CHOOSE k \in AppliedTo(a) : \A j \in AppliedTo(a) : call[j].at[1] <= call[k].at[1]

\* C15: whatever resolve and unresolve operations followed its creation, an
\* alert is HIGH, it is resolved iff the last operation applied to it was a
\* resolve, resolved_at then is set, to the time that resolve read when it
\* built its update, and resolved_at is none whenever it is unresolved (so only
\* an unresolve reopens it).
C15_ResolvedIffLastResolve ==
    \A a \in DOMAIN alerts :
        /\ alerts[a].risk_level = "HIGH"
        /\ alerts[a].resolved <=>
              (AppliedTo(a) # {} /\ call[LastApplied(a)].op = "resolve")
        /\ alerts[a].resolved =>
              /\ alerts[a].resolved_at # None
              /\ alerts[a].resolved_at = call[LastApplied(a)].resolved_at
        /\ ~alerts[a].resolved => alerts[a].resolved_at = None

\* C15 witness: an alert was resolved, reopened and is unresolved again,
\* without a resolution time
C15_Witness ==
    /\ Len(alerts) = 1
    /\ \E i, j \in AppliedTo(1) :
          /\ call[i].op = "resolve" /\ call[j].op = "unresolve"
          /\ call[i].at[1] < call[j].at[1]
    /\ alerts[1].resolved = FALSE /\ alerts[1].resolved_at = None

-----------------------------------------------------------------------------
(* Properties of concurrent send_message requests *)

\* what the classifiers in fallback mode and detect_risk give for the message
\* of each request
ExpectedAnalysis ==
    [r \in DOMAIN ConcurrentMessages |->
        LET message == ConcurrentMessages[r]
            e  == fallback_classify(message)
            sn == fallback_analyze(message)
        IN  [emotion |-> e, sentiment |-> sn,
             risk |-> detect_risk(message, Some(e.emotion), Some(sn.score))]]

\* request r holds its own user and message and the analysis of that message
OwnValues(r) ==
    LET q == req[r]
        x == ExpectedAnalysis[r]
    IN  /\ q.user_id = ConcurrentUsers[r] /\ q.message = ConcurrentMessages[r]
        /\ q.emotion = x.emotion.emotion
        /\ q.emotion_confidence = x.emotion.confidence
        /\ q.sentiment_score = x.sentiment.score
        /\ q.sentiment_polarity = x.sentiment.polarity
        /\ q.risk_level = x.risk.level /\ q.risk_score = x.risk.score
        /\ q.risk_factors = x.risk.factors

\* the chat log d was written by request q, with q's values
ChatLogOf(d, q) ==
    /\ q.pc # "idle" /\ d.user_id = q.user_id
    /\ IF d.role = "user"
       THEN /\ d.message = q.message /\ d.timestamp = q.timestamp
            /\ d.emotion = Some(q.emotion)
            /\ d.emotion_confidence = Some(q.emotion_confidence)
            /\ d.sentiment_score = Some(q.sentiment_score)
            /\ d.sentiment_polarity = Some(q.sentiment_polarity)
       ELSE /\ q.ai_response # None /\ d.message = q.ai_response[1]
            /\ d.timestamp > q.timestamp
            /\ d.emotion = None /\ d.sentiment_score = None

RiskRecordOf(d, q) ==
    /\ q.pc # "idle" /\ d.user_id = q.user_id /\ d.timestamp = q.timestamp
    /\ d.level = q.risk_level /\ d.score = q.risk_score
    /\ d.factors = q.risk_factors
    /\ d.trigger_message = IF q.risk_level \in {"MEDIUM", "HIGH"}
                           THEN Some(q.message) ELSE None

AlertOf(d, q) ==
    /\ q.pc # "idle" /\ d.user_id = q.user_id /\ d.created_at = q.timestamp
    /\ d.trigger_message = q.message
    /\ d.risk_level = q.risk_level /\ q.risk_level = "HIGH"

\* C20: when send_message requests interleave at the completion call and at
\* the inserts, every request keeps the user, the message and the analysis of
\* its own message, and every user log, AI log, risk record and alert in the
\* stores carries the values of the one request of that user; no request
\* writes a record twice.
C20_RecordsCarryOwnValues ==
    /\ \A r \in DOMAIN req : req[r].pc # "idle" => OwnValues(r)
    /\ \A i \in DOMAIN chat_logs : \E r \in DOMAIN req : ChatLogOf(chat_logs[i], req[r])
    /\ \A i \in DOMAIN risk_scores :
          \E r \in DOMAIN req : RiskRecordOf(risk_scores[i], req[r])
    /\ \A i \in DOMAIN alerts : \E r \in DOMAIN req : AlertOf(alerts[i], req[r])
    /\ \A i, j \in DOMAIN chat_logs :
          (i # j /\ chat_logs[i].user_id = chat_logs[j].user_id)
             => chat_logs[i].role # chat_logs[j].role
    /\ \A i, j \in DOMAIN risk_scores :
          i # j => risk_scores[i].user_id # risk_scores[j].user_id

\* C20 witness: two requests overlapped (the second started before the first
\* wrote anything, their logs alternate in the store) and both have returned,
\* one MEDIUM or LOW and one HIGH with its alert
C20_Witness ==
    /\ req[1].pc = "returned" /\ req[2].pc = "returned"
    /\ req[1].risk_level # req[2].risk_level
    /\ Len(chat_logs) = 4
    /\ chat_logs[1].user_id = "u1" /\ chat_logs[2].user_id = "u2"
    /\ chat_logs[3].user_id = "u1" /\ chat_logs[4].user_id = "u2"
    /\ Len(risk_scores) = 2 /\ risk_scores[1].user_id = "u2"
    /\ Len(alerts) = 1 /\ alerts[1].user_id = "u2"

-----------------------------------------------------------------------------
(* Properties of the dispatch of GET requests *)

\* C30: a GET request to /alerts/stats is served by get_alert_stats, which
\* answers the statistics with resolved_alerts = total_alerts -
\* unresolved_alerts, and a GET request to /risk/high-risk-users is served by
\* get_high_risk_users, not by the parameterised routes declared before them.
C30_FixedPathsOwnHandlers ==
    \A k \in DOMAIN call.log :
        /\ (call.log[k].method = "GET" /\ call.log[k].path = "/api/alerts/stats")
              => /\ call.log[k].endpoint = "get_alert_stats"
                 /\ call.log[k].status = 200
                 /\ call.log[k].body.resolved_alerts
                       = call.log[k].body.total_alerts - call.log[k].body.unresolved_alerts
        /\ (call.log[k].method = "GET" /\ call.log[k].path = "/api/risk/high-risk-users")
              => /\ call.log[k].endpoint = "get_high_risk_users"
                 /\ call.log[k].status = 200

-----------------------------------------------------------------------------
(* Properties of concurrent register calls *)

\* C29: after any interleaving of register calls no two accounts of the
\* psychiatrists collection share an email and no two share a license number.
C29_AccountsAreUnique ==
    \A i, j \in DOMAIN call :
        i # j => /\ call[i].email # call[j].email
                 /\ call[i].license_number # call[j].license_number

-----------------------------------------------------------------------------
(* Properties of the frame of resolve_alert and unresolve_alert *)

\* the call whose update a step applies
StepOp ==
    call'[CHOOSE k \in DOMAIN call : call[k].pc = "update_one" /\ call'[k].pc = "done"]

\* the fields of an alert that no resolution changes
Identity(alert) ==
    [user_id |-> alert.user_id, risk_level |-> alert.risk_level,
     trigger_message |-> alert.trigger_message, created_at |-> alert.created_at]

\* a step in which the update of a resolve_alert or unresolve_alert call ends
ResolutionStep ==
    \E k \in DOMAIN call : call[k].pc = "update_one" /\ call'[k].pc = "done"

\* what the update of a call may change: no alert is added or removed; the
\* update of a call that matches an alert leaves that alert's user_id,
\* risk_level, trigger_message and created_at (and, for unresolve, its notes)
\* and every other alert unchanged, and a call that changes an alert has
\* matched it and answers 200
ResolutionFrame ==
    /\ DOMAIN alerts' = DOMAIN alerts
    /\ ~ResolutionStep => alerts' = alerts
    /\ ResolutionStep =>
          /\ \A i \in DOMAIN alerts \ {StepOp.alert_id} : alerts'[i] = alerts[i]
          /\ StepOp.alert_id \in DOMAIN alerts =>
                /\ Identity(alerts'[StepOp.alert_id]) = Identity(alerts[StepOp.alert_id])
                /\ StepOp.op = "unresolve" =>
                      alerts'[StepOp.alert_id].notes = alerts[StepOp.alert_id].notes
                /\ alerts' # alerts =>
                      StepOp.status = 200 /\ StepOp.target = StepOp.alert_id
          /\ StepOp.status # 200 => alerts' = alerts

\* C28 as stated: resolve_alert and unresolve_alert change at most the
\* resolution fields of the alert their id matches, and on a well-formed id
\* that matches no alert the call returns 404 and no alert changes.
C28_UnmatchedReturns404 ==
    [][call' # call =>
          /\ ResolutionFrame
          /\ (ResolutionStep /\ StepOp.alert_id \notin DOMAIN alerts) =>
                StepOp.status = 404 /\ alerts' = alerts]_vars

\* C28, amended: resolve_alert and unresolve_alert change at most the
\* resolution fields of the alert their id matches; on a well-formed id that
\* matches no alert no alert changes and the call returns 404 when its
\* update_one completes, 400 when its update_one raises; and a call whose
\* update_one completes on an id that matches an alert returns 200.
C28_ResolutionFrame ==
    [][call' # call =>
          /\ ResolutionFrame
          /\ ResolutionStep =>
                /\ StepOp.alert_id \notin DOMAIN alerts =>
                      /\ alerts' = alerts
                      /\ StepOp.status = IF StepOp.result = None THEN 400 ELSE 404
                      /\ StepOp.result \in {None, Some(0)}
                /\ StepOp.alert_id \in DOMAIN alerts =>
                      /\ StepOp.result \in {None, Some(1)}
                      /\ StepOp.status = IF StepOp.result = None THEN 400 ELSE 200
                      /\ StepOp.result = None => alerts' = alerts]_vars

\* C28 witness: a call on a well-formed id that matched no alert, whose
\* update_one completed, was answered 404, and a resolve_alert matched the
\* first of two alerts and left the second open
C28_Witness ==
    /\ Len(alerts) = 2
    /\ \E k \in DOMAIN call :
          /\ call[k].op = "resolve" /\ call[k].status = 200 /\ call[k].target = 1
    /\ alerts[1].resolved /\ ~alerts[2].resolved
    /\ \E k \in DOMAIN call :
          call[k].status = 404 /\ call[k].result = Some(0) /\ call[k].alert_id # 0

-----------------------------------------------------------------------------
(* Properties of send_message requests whose inserts may fail *)

\* the risk records that match an alert: same user, same timestamp, level HIGH
MatchingRiskRecords(alert) ==
    {j \in DOMAIN risk_scores :
        /\ risk_scores[j].user_id = alert.user_id
        /\ risk_scores[j].timestamp = alert.created_at
        /\ risk_scores[j].level = "HIGH"}

HighRiskRecords == {j \in DOMAIN risk_scores : risk_scores[j].level = "HIGH"}

\* C27: in every reachable state of the stores, whichever inserts have failed,
\* every alert has a risk record with the same user id, the same timestamp and
\* level HIGH, and there are at most as many alerts as HIGH risk records.
C27_AlertHasRiskRecord ==
    /\ \A i \in DOMAIN alerts : MatchingRiskRecords(alerts[i]) # {}
    /\ Len(alerts) <= Cardinality(HighRiskRecords)

\* C27 witness: one request stored its HIGH risk record and its alert while an
\* insert of another request failed
C27_Witness ==
    /\ Len(alerts) = 1
    /\ MatchingRiskRecords(alerts[1]) # {}
    /\ \E r \in DOMAIN req : req[r].pc = "failed"

-----------------------------------------------------------------------------
(* Properties of send_message *)

Requests == {req[r] : r \in DOMAIN req}

\* the alert store holds an alert written for request q
AlertFor(q) ==
    \E i \in DOMAIN alerts :
        /\ alerts[i].user_id = q.user_id
        /\ alerts[i].trigger_message = q.message
        /\ alerts[i].created_at = q.timestamp

UserLogStored(q) == \E i \in DOMAIN chat_logs : chat_logs[i] = UserLog(q)

AiLogStored(q) ==
    \E i \in DOMAIN chat_logs :
        /\ q.ai_response # None
        /\ chat_logs[i].role = "ai"
        /\ chat_logs[i].user_id = q.user_id
        /\ chat_logs[i].message = q.ai_response[1]
        /\ chat_logs[i].timestamp > q.timestamp

RiskStored(q) == \E i \in DOMAIN risk_scores : risk_scores[i] = RiskEntry(q)

HasHighRiskFactor(q) ==
    \E i \in DOMAIN q.risk_factors :
        \E k \in DOMAIN HIGH_RISK_KEYWORDS :
            q.risk_factors[i] =
                "High-risk keyword detected: '" \o HIGH_RISK_KEYWORDS[k] \o "'"

\* C2: the alert store holds an alert for a request exactly when the request has
\* completed all its writes with risk level HIGH; every alert in the store
\* belongs to such a request and is HIGH, unresolved and without a resolution
\* time; a LOW or MEDIUM request never has an alert.
C2_AlertIffHigh ==
    /\ \A q \in Requests :
          /\ q.pc = "returned" => (AlertFor(q) <=> q.risk_level = "HIGH")
          /\ q.pc # "idle" /\ q.risk_level \in {"LOW", "MEDIUM"} => ~AlertFor(q)
    /\ \A i \in DOMAIN alerts :
          /\ alerts[i].risk_level = "HIGH"
          /\ alerts[i].resolved = FALSE
          /\ alerts[i].resolved_at = None
          /\ \E q \in Requests :
                /\ q.pc = "returned" /\ q.risk_level = "HIGH"
                /\ alerts[i] = NewAlert(q)
    /\ Len(alerts) = Cardinality({r \in DOMAIN req :
                                    req[r].pc = "returned" /\ req[r].risk_level = "HIGH"})

\* a HIGH request has returned and its alert, unresolved, is the one in the store
C2_Witness ==
    /\ \E q \in Requests :
          q.pc = "returned" /\ q.risk_level = "HIGH" /\ AlertFor(q)
             /\ Len(alerts) = 1 /\ alerts[1].resolved = FALSE

\* C3: every request whose message holds a high-risk phrase is assessed HIGH
\* with a high-risk keyword factor, and once it has returned (all its writes
\* succeeded) an alert for its user and message is in the alert store.
C3_HighRiskMessageAlerts ==
    \A q \in Requests :
        q.pc # "idle" /\ HasHighRiskKeyword(q.message) =>
            /\ q.risk_level = "HIGH"
            /\ HasHighRiskFactor(q)
            /\ q.pc = "returned" => AlertFor(q)

\* C6: every request that returns (all writes succeeded) carries a non-empty
\* ai_response, and a request ends otherwise only by a failed write.
C6_ReplyAlwaysNonEmpty ==
    \A q \in Requests :
        /\ q.pc = "returned" => q.response # None /\ q.response[1].ai_response # ""
        /\ q.pc = "failed" => q.error # None /\ q.error[1] \in PendingWrites

\* C7: a request whose write failed has ended with the error of that write and
\* without a response, and everything written for it before the failure is
\* still in the stores: the user log before a failed AI log, both logs before a
\* failed risk record, both logs and the risk record before a failed alert;
\* nothing of the failed write or of the writes after it is stored.
C7_WriteFailureSurfaces ==
    \A q \in Requests :
        /\ q.pc = "failed" =>
              /\ q.error # None /\ q.response = None
              /\ q.error[1] = "insert_user_log" =>
                    ~UserLogStored(q) /\ ~RiskStored(q) /\ ~AlertFor(q)
              /\ q.error[1] = "insert_ai_log" =>
                    UserLogStored(q) /\ ~RiskStored(q) /\ ~AlertFor(q)
              /\ q.error[1] = "insert_risk" =>
                    UserLogStored(q) /\ AiLogStored(q) /\ ~RiskStored(q) /\ ~AlertFor(q)
              /\ q.error[1] = "insert_alert" =>
                    UserLogStored(q) /\ AiLogStored(q) /\ RiskStored(q) /\ ~AlertFor(q)
        /\ q.pc = "returned" => q.error = None /\ UserLogStored(q) /\ AiLogStored(q)
                                   /\ RiskStored(q)

\* the alert write of a HIGH request failed after its logs and risk record
\* were stored
C7_Witness ==
    \E q \in Requests :
        /\ q.pc = "failed" /\ q.error = Some("insert_alert")
        /\ q.risk_level = "HIGH" /\ RiskStored(q) /\ UserLogStored(q) /\ AiLogStored(q)
        /\ alerts = <<>>

====
